---- MODULE Spec2Model ----
(***************************************************************************)
(* A model of the static repository introspection engine of               *)
(* AutoRepo-Insight (backend/utils/*.py).                                  *)
(*                                                                         *)
(* The inspected directory tree is a set of entries; the path of an entry  *)
(* is the sequence of names from the root to it.  Names, file contents     *)
(* that are searched for substrings, and the returned texts are strings,   *)
(* read as sequences of characters (Len, SubSeq and \o apply to them), so  *)
(* that lower(), strip(), splitext() and `in` are computed.  The text of   *)
(* a Python file that generate_docs searches with regular expressions is   *)
(* a sequence of tokens; every text of one tree is of one of the two kinds.*)
(***************************************************************************)
EXTENDS Integers, Sequences, FiniteSets, TLC

VARIABLES
    tree,           \* the directory tree under repo_path
    pc,             \* position of the running function
    license_info,   \* detect_license: the returned string
    git,            \* what each git query answers in repo_path
    git_info,       \* get_git_info: the dictionary being filled
    py_files,       \* generate_docs: the (module_name, file_path) pairs found
    rel_path,       \* generate_docs: the loop variable of the discovery walk
    doc_i,          \* generate_docs: how many of py_files the loop has taken
    docs,           \* generate_docs: the sections of the documented files
    skipped,        \* generate_docs: (module_name, error, traceback) triples
    documentation,  \* generate_docs: the returned page, block by block
    count_i,        \* count_files_and_languages: files of the walk taken so far
    total_files,    \* count_files_and_languages: the counter of files
    lang_counts,    \* count_files_and_languages: (language, count) in insertion order
    total_size,     \* count_files_and_languages: the sum of the sizes read
    file_sizes,     \* count_files_and_languages: the sizes read
    stacks,         \* detect_stacks: the list returned by the latest call
    max_depth,      \* get_folder_tree: the depth argument
    folder_tree,    \* get_folder_tree: whether it raised, and the lines rendered
    readme,         \* generate_readme: whether it raised, and the text returned
    gitignore,      \* generate_gitignore: the text returned
    project_name,   \* get_project_name: the name returned
    main_found,     \* detect_main_script: the path returned, "" for None
    complexity,     \* analyze_code_complexity: the dictionary of counters
    requirements,   \* generate_requirements: the text returned
    cloned          \* analyze_repo: the tree as clone_repo left it

vars == <<tree, pc, license_info, git, git_info,
          py_files, rel_path, doc_i, docs, skipped, documentation,
          count_i, total_files, lang_counts, total_size, file_sizes, stacks,
          max_depth, folder_tree, readme,
          gitignore, project_name, main_found, complexity, requirements, cloned>>

\* the variables of the functions that are not running
licenseVars == <<license_info>>
gitVars == <<git, git_info>>
LicenseIdle == license_info = ""
GitIdle == git = <<>> /\ git_info = <<>>
docsVars == <<py_files, rel_path, doc_i, docs, skipped, documentation>>
DocsIdle ==
    /\ py_files = <<>> /\ rel_path = "" /\ doc_i = 0 /\ docs = <<>>
    /\ skipped = <<>> /\ documentation = <<>>
stackVars == <<stacks>>
StacksIdle == stacks = <<>>
renderVars == <<max_depth, folder_tree>>
RenderIdle == max_depth = 0 /\ folder_tree = [raised |-> FALSE, lines |-> <<>>]
readmeVars == <<readme>>
ReadmeIdle == readme = [raised |-> FALSE, text |-> ""]
outVars == <<gitignore, project_name, main_found, complexity, requirements, cloned>>
OutIdle ==
    /\ gitignore = "" /\ project_name = "" /\ main_found = ""
    /\ complexity = <<>> /\ requirements = "" /\ cloned = {}
countVars == <<count_i, total_files, lang_counts, total_size, file_sizes>>
CountIdle ==
    /\ count_i = 0 /\ total_files = 0 /\ lang_counts = <<>>
    /\ total_size = 0 /\ file_sizes = <<>>

\* ------------------------------------------------------------------ bounds
MaxLicenseWords == 2
MaxDescLen == 1
MaxStackTree == 4
MaxDepth == 3
MaxDocLen == 3

\* ---------------------------------------------------------------- strings
Char(s, i) == SubSeq(s, i, i)

UpperLetters == "ABCDEFGHIJKLMNOPQRSTUVWXYZ"
LowerLetters == "abcdefghijklmnopqrstuvwxyz"

\* str.lower() on one character
LowerChar(c) ==
    IF \E i \in 1..Len(UpperLetters) : Char(UpperLetters, i) = c
    THEN Char(LowerLetters, CHOOSE i \in 1..Len(UpperLetters) : Char(UpperLetters, i) = c)
    ELSE c

\* str.lower()
RECURSIVE Lower(_)
Lower(s) == IF Len(s) = 0 THEN "" ELSE LowerChar(Char(s, 1)) \o Lower(SubSeq(s, 2, Len(s)))

\* `sub in s`
Contains(s, sub) ==
    \E i \in 0..(Len(s) - Len(sub)) : SubSeq(s, i + 1, i + Len(sub)) = sub

\* s.startswith(pre), s.endswith(suf)
StartsWith(s, pre) == Len(s) >= Len(pre) /\ SubSeq(s, 1, Len(pre)) = pre
EndsWith(s, suf) == Len(s) >= Len(suf) /\ SubSeq(s, Len(s) - Len(suf) + 1, Len(s)) = suf

SetMin(S) == CHOOSE x \in S : \A y \in S : x <= y
SetMax(S) == CHOOSE x \in S : \A y \in S : x >= y

\* str.strip() with no argument: white space off both ends
IsSpace(c) == c = " " \/ c = "\n" \/ c = "\t" \/ c = "\r"
NonSpace(s) == {i \in 1..Len(s) : ~IsSpace(Char(s, i))}
StripLeft(s) == IF NonSpace(s) = {} THEN "" ELSE SubSeq(s, SetMin(NonSpace(s)), Len(s))
StripRight(s) == IF NonSpace(s) = {} THEN "" ELSE SubSeq(s, 1, SetMax(NonSpace(s)))
StripStr(s) == StripRight(StripLeft(s))

\* printable ASCII characters in code point order
Ascii ==
    " !\"#$%&'()*+,-./0123456789:;<=>?@ABCDEFGHIJKLMNOPQRSTUVWXYZ[\\]^_abcdefghijklmnopqrstuvwxyz{|}~"

CodeOf(c) == CHOOSE i \in 1..Len(Ascii) : Char(Ascii, i) = c

\* a < b for strings, as Python compares them
RECURSIVE StrLess(_, _)
StrLess(a, b) ==
    IF Len(b) = 0 THEN FALSE
    ELSE IF Len(a) = 0 THEN TRUE
    ELSE IF Char(a, 1) = Char(b, 1) THEN StrLess(SubSeq(a, 2, Len(a)), SubSeq(b, 2, Len(b)))
    ELSE CodeOf(Char(a, 1)) < CodeOf(Char(b, 1))

\* sorted(S) for a set of strings
RECURSIVE Sorted(_)
Sorted(S) ==
    IF S = {} THEN <<>>
    ELSE LET least == CHOOSE x \in S : \A y \in S \ {x} : StrLess(x, y)
         IN <<least>> \o Sorted(S \ {least})

\* the strings over an alphabet (a set of one-character strings) of length
\* at most n
RECURSIVE StringsUpTo(_, _)
StringsUpTo(A, n) ==
    IF n = 0 THEN {""}
    ELSE StringsUpTo(A, n - 1) \cup {s \o c : s \in StringsUpTo(A, n - 1), c \in A}

\* ------------------------------------------------------------------- tree
\* An entry: path (below the root), kind ("file", "dir", or "badlink" for a
\* dangling symbolic link), ok (a file decodes as UTF-8 / a directory can be
\* listed), text (what reading the file yields) and ord (its place in the
\* order in which the operating system lists its directory).
EntryOrd(p, k, o, t, n) == [path |-> p, kind |-> k, ok |-> o, text |-> t, ord |-> n]
Entry(p, k, o, t) == EntryOrd(p, k, o, t, 0)

HasEntry(t, p) == \E e \in t : e.path = p
EntryAt(t, p) == CHOOSE e \in t : e.path = p

\* os.path.exists(os.path.join(repo_path, name)): follows symbolic links, so
\* a dangling link does not exist
Exists(t, name) ==
    HasEntry(t, <<name>>) /\ EntryAt(t, <<name>>).kind # "badlink"

\* open(path, "r", encoding="utf-8") ... f.read() succeeds
CanRead(t, p) ==
    HasEntry(t, p) /\ EntryAt(t, p).kind = "file" /\ EntryAt(t, p).ok

\* --------------------------------------------------------------- os.walk
Parent(p) == SubSeq(p, 1, Len(p) - 1)
BaseName(p) == p[Len(p)]

\* the entries of directory p
Children(t, p) == {e \in t : Len(e.path) = Len(p) + 1 /\ Parent(e.path) = p}

\* a set of entries as a sequence, in listing order
RECURSIVE InListingOrder(_)
InListingOrder(S) ==
    IF S = {} THEN <<>>
    ELSE LET first == CHOOSE e \in S : \A f \in S : e.ord <= f.ord
         IN <<first>> \o InListingOrder(S \ {first})

RECURSIVE Concat(_)
Concat(ss) == IF ss = <<>> THEN <<>> ELSE Head(ss) \o Concat(Tail(ss))

\* os.walk(top): the (root, dirs, files) triples, top-down; a directory that
\* cannot be listed yields nothing (onerror is None); `pruned` holds the
\* directory names the caller removes from dirs before the walk descends
RECURSIVE Walk(_, _, _)
Walk(t, top, pruned) ==
    IF ~(HasEntry(t, top) /\ EntryAt(t, top).kind = "dir" /\ EntryAt(t, top).ok)
    THEN <<>>
    ELSE LET listed == InListingOrder(Children(t, top))
             IsF(e) == e.kind # "dir"
             Kept(e) == e.kind = "dir" /\ BaseName(e.path) \notin pruned
             dirs == SelectSeq(listed, Kept)
             files == SelectSeq(listed, IsF)
         IN <<[root |-> top,
               dirs |-> [i \in DOMAIN dirs |-> BaseName(dirs[i].path)],
               files |-> [i \in DOMAIN files |-> BaseName(files[i].path)]]>>
            \o Concat([i \in DOMAIN dirs |-> Walk(t, dirs[i].path, pruned)])

\* the paths of the files the loops `for root, dirs, files in os.walk(...)`,
\* `for f in files` visit, in the order they visit them
WalkFiles(t, pruned) ==
    LET w == Walk(t, <<>>, pruned)
    IN Concat([i \in DOMAIN w |->
                 [j \in DOMAIN w[i].files |-> Append(w[i].root, w[i].files[j])]])

\* ------------------------------------------------------------------ paths
\* os.path.relpath(path, repo_path): the names joined by the separator
RECURSIVE JoinPath(_, _)
JoinPath(p, sep) ==
    IF p = <<>> THEN ""
    ELSE IF Len(p) = 1 THEN p[1]
    ELSE p[1] \o sep \o JoinPath(Tail(p), sep)

RelPath(p) == JoinPath(p, "/")

\* ---------------------------------------------------------- detect_license
license_files == <<"LICENSE", "LICENSE.txt", "LICENSE.md", "COPYING", "COPYING.txt">>

\* the if/elif chain on content_lower, apache asked before mit
ClassifyLicenseApacheFirst(content_lower, license_file) ==
    IF Contains(content_lower, "apache") THEN "Apache License 2.0"
    ELSE IF Contains(content_lower, "mit") THEN "MIT License"
    ELSE IF Contains(content_lower, "gpl") THEN
        IF Contains(content_lower, "v3") THEN "GNU GPL v3"
        ELSE IF Contains(content_lower, "v2") THEN "GNU GPL v2"
        ELSE "GNU GPL"
    ELSE IF Contains(content_lower, "bsd") THEN "BSD License"
    ELSE "Custom License (see " \o license_file \o ")"

\* the if/elif chain of detect_license on content_lower
ClassifyLicense(content_lower, license_file) ==
    IF Contains(content_lower, "mit") THEN "MIT License"
    ELSE IF Contains(content_lower, "apache") THEN "Apache License 2.0"
    ELSE IF Contains(content_lower, "gpl") THEN
        IF Contains(content_lower, "v3") THEN "GNU GPL v3"
        ELSE IF Contains(content_lower, "v2") THEN "GNU GPL v2"
        ELSE "GNU GPL"
    ELSE IF Contains(content_lower, "bsd") THEN "BSD License"
    ELSE "Custom License (see " \o license_file \o ")"

\* the loop over license_files from the i-th candidate on: a candidate that
\* does not exist, or whose open or read raises, is passed over
RECURSIVE DetectLicenseFrom(_, _)
DetectLicenseFrom(t, i) ==
    IF i > Len(license_files) THEN "No license detected."
    ELSE IF Exists(t, license_files[i]) /\ CanRead(t, <<license_files[i]>>)
         THEN ClassifyLicense(Lower(StripStr(EntryAt(t, <<license_files[i]>>).text)),
                              license_files[i])
         ELSE DetectLicenseFrom(t, i + 1)

detect_license(t) == DetectLicenseFrom(t, 1)

\* ------------------------------------------------- inputs: license trees
\* words a license file is made of; "PerMiTted" and "limitations" hold the
\* letters m, i, t inside a word
LicenseWords ==
    {"MIT", "PerMiTted", "limitations", "Apache", "GPL", "v3", "BSD", "Copyright"}

\* the texts of at most n words, each word followed by a line break
RECURSIVE TextsUpTo(_, _)
TextsUpTo(words, n) ==
    IF n = 0 THEN {""}
    ELSE TextsUpTo(words, n - 1)
         \cup {s \o w \o "\n" : s \in TextsUpTo(words, n - 1), w \in words}

RootEntry(o) == Entry(<<>>, "dir", o, "")

\* what one candidate license file can be: absent, undecodable, a
\* directory, or a file with one of the texts
LicenseFileStates(name, texts) ==
    {{}} \cup {{Entry(<<name>>, "file", FALSE, "")}}
         \cup {{Entry(<<name>>, "dir", TRUE, "")}}
         \cup {{Entry(<<name>>, "file", TRUE, c)} : c \in texts}

LicenseTrees ==
    {{RootEntry(TRUE)} \cup a \cup b \cup c \cup d \cup e :
        a \in LicenseFileStates("LICENSE", TextsUpTo(LicenseWords, MaxLicenseWords)),
        b \in LicenseFileStates("LICENSE.txt", {"MIT\n", "Copyright\n"}),
        c \in LicenseFileStates("COPYING", {"GPL v3\n"}),
        d \in {{}, {Entry(<<"LICENSE.md">>, "file", TRUE, "BSD\n")}},
        e \in {{}, {Entry(<<"COPYING.txt">>, "badlink", FALSE, "")}}}

\* ------------------------------------------------------------ SpecLicense
InitLicense ==
    /\ tree \in LicenseTrees
    /\ pc = "start"
    /\ license_info = ""
    /\ GitIdle /\ DocsIdle /\ CountIdle /\ StacksIdle /\ RenderIdle /\ ReadmeIdle /\ OutIdle

DetectLicense ==
    /\ pc = "start"
    /\ license_info' = detect_license(tree)
    /\ pc' = "done"
    /\ UNCHANGED <<tree, gitVars, docsVars, countVars, stackVars, renderVars, readmeVars, outVars>>

NextLicense == DetectLicense

SpecLicense == InitLicense /\ [][NextLicense]_vars

\* ----------------------------------------------- count_files_and_languages
\* os.path.splitext(name)[1]: from the last dot on, unless only dots stand
\* before it
SplitExt(name) ==
    LET dots == {i \in 1..Len(name) : Char(name, i) = "."}
    IN IF dots = {} THEN ""
       ELSE IF \E j \in 1..(SetMax(dots) - 1) : Char(name, j) # "."
            THEN SubSeq(name, SetMax(dots), Len(name))
            ELSE ""

count_exclude == {".git", "__pycache__", "venv", ".venv", "node_modules", "dist", "build"}

Lang(l, ps) == [lang |-> l, patterns |-> ps]

\* the dictionary language_patterns, in its insertion order
language_patterns == <<
    Lang("Python", {".py", ".pyx", ".pyi", ".pyw"}),
    Lang("JavaScript", {".js", ".mjs"}),
    Lang("TypeScript", {".ts", ".tsx"}),
    Lang("React", {".jsx", ".tsx"}),
    Lang("Vue", {".vue"}),
    Lang("Svelte", {".svelte"}),
    Lang("HTML", {".html", ".htm"}),
    Lang("CSS", {".css", ".scss", ".sass", ".less"}),
    Lang("Java", {".java", ".class"}),
    Lang("C++", {".cpp", ".cc", ".cxx", ".hpp", ".h"}),
    Lang("C", {".c", ".h"}),
    Lang("Go", {".go"}),
    Lang("Rust", {".rs"}),
    Lang("PHP", {".php"}),
    Lang("Ruby", {".rb"}),
    Lang("Swift", {".swift"}),
    Lang("Kotlin", {".kt", ".kts"}),
    Lang("Scala", {".scala"}),
    Lang("Dart", {".dart"}),
    Lang("Lua", {".lua"}),
    Lang("Shell", {".sh", ".bash", ".zsh", ".fish"}),
    Lang("Batch", {".bat", ".cmd"}),
    Lang("PowerShell", {".ps1"}),
    Lang("SQL", {".sql"}),
    Lang("Markdown", {".md", ".markdown"}),
    Lang("YAML", {".yml", ".yaml"}),
    Lang("JSON", {".json"}),
    Lang("XML", {".xml"}),
    Lang("TOML", {".toml"}),
    Lang("INI", {".ini", ".cfg", ".conf"}),
    Lang("Docker", {".dockerfile", ".dockerignore"}),
    Lang("Makefile", {"makefile", "makefile.am", "makefile.in"}),
    Lang("CMake", {"cmakelists.txt", ".cmake"}),
    Lang("Gradle", {".gradle"}),
    Lang("Maven", {"pom.xml"}),
    Lang("Cargo", {"cargo.toml"}),
    Lang("Package", {"package.json", "package-lock.json", "yarn.lock"}),
    Lang("Requirements", {"requirements.txt", "requirements-dev.txt", "pyproject.toml",
                          "setup.py", "setup.cfg"}),
    Lang("Go Modules", {"go.mod", "go.sum"}),
    Lang("Pipenv", {"pipfile", "pipfile.lock"}),
    Lang("Poetry", {"pyproject.toml", "poetry.lock"}) >>

\* `ext in patterns or file.lower() in patterns`
PatternMatches(file, patterns) ==
    Lower(SplitExt(file)) \in patterns \/ Lower(file) \in patterns

\* the for/else over language_patterns without its break: the last entry
\* that matches
LanguageOfLast(file) ==
    LET hits == {i \in DOMAIN language_patterns :
                    PatternMatches(file, language_patterns[i].patterns)}
    IN IF hits # {} THEN language_patterns[SetMax(hits)].lang
       ELSE IF SplitExt(file) # "" THEN "Other (" \o Lower(SplitExt(file)) \o ")"
       ELSE "Unknown"

\* the for/else over language_patterns: the first entry that matches, else
\* 'Other (ext)' or 'Unknown'
LanguageOf(file) ==
    LET hits == {i \in DOMAIN language_patterns :
                    PatternMatches(file, language_patterns[i].patterns)}
    IN IF hits # {} THEN language_patterns[SetMin(hits)].lang
       ELSE IF SplitExt(file) # "" THEN "Other (" \o Lower(SplitExt(file)) \o ")"
       ELSE "Unknown"

\* counter[k] += 1 on a Counter kept as (key, count) pairs in insertion order
Increment(counter, k) ==
    IF \E i \in DOMAIN counter : counter[i][1] = k
    THEN [i \in DOMAIN counter |->
            IF counter[i][1] = k THEN <<k, counter[i][2] + 1>> ELSE counter[i]]
    ELSE Append(counter, <<k, 1>>)

\* os.path.getsize(path): the size of a file is the length of its text; a
\* dangling link has none and getsize raises
SizeKnown(e) == e.kind # "badlink"
FileSize(e) == Len(e.text)

\* the files the loops of count_files_and_languages visit: hidden names are
\* passed over
CountedFiles(t) ==
    SelectSeq(WalkFiles(t, count_exclude), LAMBDA p : ~StartsWith(BaseName(p), "."))

\* the locals of count_files_and_languages as one record
Counts(n, l, z, f) == [total_files |-> n, lang_counts |-> l, total_size |-> z, file_sizes |-> f]

\* lines 244 to 268: the body of the loop for the file that is entry e
CountStep(c, e) ==
    IF SizeKnown(e)
    THEN Counts(c.total_files + 1,
                Increment(c.lang_counts, LanguageOf(BaseName(e.path))),
                c.total_size + FileSize(e),
                Append(c.file_sizes, FileSize(e)))
    ELSE [c EXCEPT !.total_files = c.total_files + 1]

\* one file of the walk
CountFile ==
    /\ pc = "count"
    /\ count_i < Len(CountedFiles(tree))
    /\ count_i' = count_i + 1
    /\ \E c \in {CountStep(Counts(total_files, lang_counts, total_size, file_sizes),
                            EntryAt(tree, CountedFiles(tree)[count_i + 1]))} :
          /\ total_files' = c.total_files
          /\ lang_counts' = c.lang_counts
          /\ total_size' = c.total_size
          /\ file_sizes' = c.file_sizes
    /\ UNCHANGED <<tree, pc, licenseVars, gitVars, docsVars, stackVars, renderVars, readmeVars, outVars>>

\* the locals after the first i files of the walk
RECURSIVE CountedUpTo(_, _)
CountedUpTo(t, i) ==
    IF i = 0 THEN Counts(0, <<>>, 0, <<>>)
    ELSE CountStep(CountedUpTo(t, i - 1), EntryAt(t, CountedFiles(t)[i]))

\* the locals when the walk is over
count_files_and_languages(t) == CountedUpTo(t, Len(CountedFiles(t)))

\* int(avg_size) of the value of line 270
avg_size == IF total_files > 0 THEN total_size \div total_files ELSE 0

\* line 271: the walk is over and the function returns
CountReturn ==
    /\ pc = "count"
    /\ count_i = Len(CountedFiles(tree))
    /\ pc' = "done"
    /\ UNCHANGED <<tree, countVars, licenseVars, gitVars, docsVars, stackVars, renderVars, readmeVars, outVars>>

\* ----------------------------------------------- inputs: trees to count
Optional(e) == {{}, {e}}

SrcStates(n) ==
    {{}} \cup
    {{EntryOrd(<<"src">>, "dir", o, "", n),
      EntryOrd(<<"src", "util.h">>, k, TRUE, "int x;\n", 1)} :
        o \in BOOLEAN, k \in {"file", "badlink"}}

CountTrees ==
    {{RootEntry(TRUE),
      EntryOrd(<<"node_modules">>, "dir", TRUE, "", 8),
      EntryOrd(<<"node_modules", "dep.js">>, "file", TRUE, "x\n", 1)}
     \cup a \cup b \cup c \cup d \cup e \cup f \cup g \cup h :
        a \in Optional(EntryOrd(<<"main.py">>, "file", TRUE, "x = 1\n", 1))
              \cup {{EntryOrd(<<"main.py">>, "badlink", FALSE, "", 1)}},
        b \in Optional(EntryOrd(<<"App.TSX">>, "file", TRUE, "tsx\n", 2)),
        c \in Optional(EntryOrd(<<"Makefile">>, "file", TRUE, "all:\n", 3)),
        d \in Optional(EntryOrd(<<"data.xyz">>, "file", TRUE, "0\n", 4)),
        e \in Optional(EntryOrd(<<"README">>, "file", TRUE, "hi\n", 5)),
        f \in Optional(EntryOrd(<<".env">>, "file", TRUE, "K=V\n", 6)),
        g \in SrcStates(7),
        h \in Optional(EntryOrd(<<"package.json">>, "file", TRUE, "{}\n", 9))}

\* -------------------------------------------------------------- SpecCount
InitCount ==
    /\ tree \in CountTrees
    /\ pc = "count"
    /\ count_i = 0 /\ total_files = 0 /\ lang_counts = <<>>
    /\ total_size = 0 /\ file_sizes = <<>>
    /\ LicenseIdle /\ GitIdle /\ DocsIdle /\ StacksIdle /\ RenderIdle /\ ReadmeIdle /\ OutIdle

NextCount == CountFile \/ CountReturn

SpecCount == InitCount /\ [][NextCount]_vars

\* ------------------------------------------------------------ detect_stacks
Indicator(l, es, ds, fs) == [lang |-> l, exts |-> es, folders |-> ds, files |-> fs]

indicators == <<
    Indicator("python", {".py", ".egg-info"}, {"__pycache__", ".venv", "venv"}, {}),
    Indicator("jupyter", {".ipynb"}, {".ipynb_checkpoints"}, {}),
    Indicator("node", {".js"}, {"node_modules"}, {"package.json"}),
    Indicator("react", {".jsx", ".tsx"}, {"src", "public"}, {}),
    Indicator("java", {".java"}, {}, {"pom.xml"}),
    Indicator("cpp", {".cpp", ".h"}, {}, {"Makefile", "CMakeLists.txt"}) >>

Range(f) == {f[i] : i \in DOMAIN f}

\* lines 17 to 26 for one (root, dirs, files) triple and one stack
Evidence(triple, keys) ==
    \/ \E f \in Range(triple.files) : Lower(SplitExt(f)) \in keys.exts \/ f \in keys.files
    \/ \E d \in Range(triple.dirs) : Lower(d) \in keys.folders

\* the set `found` if every stack found replaced the set instead of joining it
StacksFoundLastWins(t) ==
    LET hits == {i \in DOMAIN indicators :
                    \E k \in DOMAIN Walk(t, <<>>, {}) : Evidence(Walk(t, <<>>, {})[k], indicators[i])}
    IN IF hits = {} THEN {} ELSE {indicators[SetMax(hits)].lang}

\* lines 13 to 26: the set `found` after the walk
StacksFound(t) ==
    {indicators[i].lang : i \in {j \in DOMAIN indicators :
        \E k \in DOMAIN Walk(t, <<>>, {}) : Evidence(Walk(t, <<>>, {})[k], indicators[j])}}

\* line 28
detect_stacks(t) == Sorted(StacksFound(t))

\* ------------------------------------------------- inputs: growing trees
\* the manifest files of the stacks, and files that are evidence by their
\* extension
StackFiles == {"package.json", "pom.xml", "Makefile", "CMakeLists.txt", "nb.ipynb", "App.JSX"}

StackBaseTrees ==
    { {RootEntry(TRUE)},
      {RootEntry(TRUE), EntryOrd(<<"tool.py">>, "file", TRUE, "x\n", 1)},
      {RootEntry(TRUE), EntryOrd(<<"lib">>, "dir", TRUE, "", 1),
                        EntryOrd(<<"lib", "Main.java">>, "file", TRUE, "x\n", 1)},
      {RootEntry(TRUE), EntryOrd(<<"VENV">>, "dir", FALSE, "", 1),
                        EntryOrd(<<"nb.ipynb">>, "file", TRUE, "x\n", 2)} }

ListableDirs(t) == {e.path : e \in {x \in t : x.kind = "dir" /\ x.ok}}

\* the tree with one more file, listed after the entries already there
WithFile(t, dir, name) ==
    t \cup {EntryOrd(Append(dir, name), "file", TRUE, "x\n", Cardinality(t))}

\* -------------------------------------------------------------- SpecStacks
InitStacks ==
    /\ tree \in StackBaseTrees
    /\ pc = "idle"
    /\ stacks = <<>>
    /\ LicenseIdle /\ GitIdle /\ DocsIdle /\ CountIdle /\ RenderIdle /\ ReadmeIdle /\ OutIdle

\* someone adds a file to the tree
AddFile(dir, name) ==
    /\ Cardinality(tree) < MaxStackTree
    /\ ~HasEntry(tree, Append(dir, name))
    /\ tree' = WithFile(tree, dir, name)
    /\ UNCHANGED <<pc, stacks, licenseVars, gitVars, docsVars, countVars, renderVars, readmeVars, outVars>>

\* a call of detect_stacks on the tree as it is
DetectStacks ==
    /\ stacks' = detect_stacks(tree)
    /\ UNCHANGED <<tree, pc, licenseVars, gitVars, docsVars, countVars, renderVars, readmeVars, outVars>>

NextStacks ==
    \/ \E dir \in ListableDirs(tree), name \in StackFiles : AddFile(dir, name)
    \/ DetectStacks

SpecStacks == InitStacks /\ [][NextStacks]_vars

\* ---------------------------------------------------------- get_folder_tree
tree_exclude ==
    {".git", "__pycache__", "venv", ".venv", ".ipynb_checkpoints", "node_modules",
     "dist", "build", ".pytest_cache", ".mypy_cache", ".coverage", ".tox"}

\* get_directory_priority
get_directory_priority(dir_name) ==
    LET n == Lower(dir_name)
    IN IF n \in {"src", "app", "main", "core"} THEN 1
       ELSE IF n \in {"tests", "test", "specs"} THEN 2
       ELSE IF n \in {"docs", "documentation"} THEN 3
       ELSE IF n \in {"examples", "samples"} THEN 4
       ELSE IF n \in {"scripts", "tools", "utils"} THEN 5
       ELSE IF n \in {"config", "settings"} THEN 6
       ELSE IF n \in {"assets", "static", "media"} THEN 7
       ELSE IF n \in {"data", "models"} THEN 8
       ELSE 10

RECURSIVE SumLens(_)
SumLens(w) == IF w = <<>> THEN 0 ELSE Len(Head(w).files) + SumLens(Tail(w))

\* count_files_in_dir
count_files_in_dir(t, dir_path) == SumLens(Walk(t, dir_path, {}))

\* os.path.isdir(path)
IsDir(t, p) == HasEntry(t, p) /\ EntryAt(t, p).kind = "dir"

\* directories by name alone
SortedDirsByName(S) == Sorted(S)

\* dirs.sort(key=lambda x: (x[1], x[0]))
RECURSIVE SortedDirs(_)
SortedDirs(S) ==
    IF S = {} THEN <<>>
    ELSE LET Before(a, b) ==
                 \/ get_directory_priority(a) < get_directory_priority(b)
                 \/ /\ get_directory_priority(a) = get_directory_priority(b)
                    /\ StrLess(a, b)
             first == CHOOSE x \in S : \A y \in S \ {x} : Before(x, y)
         IN <<first>> \o SortedDirs(S \ {first})

\* line 66, with the comparison one level late
DepthExceededLate(depth, bound) == depth > bound + 1

\* line 66: `if depth > max_depth: return`
DepthExceeded(depth, bound) == depth > bound

\* walk(dir_path, depth, prefix): the lines it appends to `tree`, or that
\* os.listdir raised in it or below it.  A line keeps the path of its entry,
\* whether it is a directory, the file count printed for a directory, and
\* the prefix as one flag per level (TRUE where the level's last entry was
\* passed); `last` chooses the connector.
RECURSIVE FolderWalk(_, _, _, _, _)
FolderWalk(t, dir_path, depth, prefix, bound) ==
    IF DepthExceeded(depth, bound) THEN [raised |-> FALSE, lines |-> <<>>]
    ELSE IF ~(IsDir(t, dir_path) /\ EntryAt(t, dir_path).ok)
    THEN [raised |-> TRUE, lines |-> <<>>]
    ELSE LET entries == {BaseName(e.path) : e \in Children(t, dir_path)} \ tree_exclude
             dirs == SortedDirs({n \in entries : IsDir(t, Append(dir_path, n))})
             files == Sorted({n \in entries : ~IsDir(t, Append(dir_path, n))})
             all_entries == [i \in DOMAIN dirs |-> <<dirs[i], TRUE>>]
                            \o [i \in DOMAIN files |-> <<files[i], FALSE>>]
             PathOf(i) == Append(dir_path, all_entries[i][1])
             IsLast(i) == i = Len(all_entries)
             Below(i) == FolderWalk(t, PathOf(i), depth + 1, Append(prefix, IsLast(i)), bound)
             LineOf(i) ==
                 [path |-> PathOf(i), is_dir |-> all_entries[i][2], last |-> IsLast(i),
                  prefix |-> prefix,
                  file_count |-> IF all_entries[i][2] THEN count_files_in_dir(t, PathOf(i))
                                 ELSE 0]
         IN IF \E i \in DOMAIN all_entries : all_entries[i][2] /\ Below(i).raised
            THEN [raised |-> TRUE, lines |-> <<>>]
            ELSE [raised |-> FALSE,
                  lines |-> Concat([i \in DOMAIN all_entries |->
                               <<LineOf(i)>> \o (IF all_entries[i][2] THEN Below(i).lines
                                                 ELSE <<>>)])]

\* lines 100 and 101
get_folder_tree(t, bound) == FolderWalk(t, <<>>, 1, <<>>, bound)

\* ------------------------------------------------- inputs: trees to render
\* a chain of directories src/core/deep/er with y.py at its end, cut after
\* k names
ChainNames == <<"src", "core", "deep", "er", "y.py">>
Chain(k) ==
    {EntryOrd(SubSeq(ChainNames, 1, i), IF i = Len(ChainNames) THEN "file" ELSE "dir",
              TRUE, "x\n", 1) : i \in 1..k}

\* the chain with its directory `deep` closed to listing
LockedChain ==
    {IF e.path = <<"src", "core", "deep">> THEN [e EXCEPT !.ok = FALSE] ELSE e : e \in Chain(3)}

\* three more directories and two more files at the root
MoreEntries ==
    {EntryOrd(<<"alpha">>, "dir", TRUE, "", 5), EntryOrd(<<"app">>, "dir", TRUE, "", 6),
     EntryOrd(<<"docs">>, "dir", TRUE, "", 7),
     EntryOrd(<<"a.py">>, "file", TRUE, "x\n", 8),
     EntryOrd(<<"Makefile">>, "file", TRUE, "x\n", 9)}

RenderTrees ==
    {{RootEntry(TRUE)} \cup a \cup b \cup c \cup d \cup e :
        e \in {{}, MoreEntries},
        a \in {Chain(k) : k \in 0..Len(ChainNames)} \cup {LockedChain},
        b \in Optional(EntryOrd(<<"README.md">>, "file", TRUE, "hi\n", 2)),
        c \in {{}, {EntryOrd(<<"build">>, "dir", TRUE, "", 3),
                    EntryOrd(<<"build", "out.js">>, "file", TRUE, "x\n", 1)}},
        d \in {{}, {EntryOrd(<<"Zeta">>, "dir", FALSE, "", 4)},
                   {EntryOrd(<<"Zeta">>, "dir", TRUE, "", 4),
                    EntryOrd(<<"Zeta", "tests">>, "dir", TRUE, "", 1),
                    EntryOrd(<<"Zeta", "a.txt">>, "badlink", FALSE, "", 2)}}}

\* ---------------------------------------------------------------- SpecTree
InitTree ==
    /\ tree \in RenderTrees
    /\ max_depth \in 0..MaxDepth
    /\ folder_tree = [raised |-> FALSE, lines |-> <<>>]
    /\ pc = "start"
    /\ LicenseIdle /\ GitIdle /\ DocsIdle /\ CountIdle /\ StacksIdle /\ ReadmeIdle /\ OutIdle

RenderTree ==
    /\ pc = "start"
    /\ folder_tree' = get_folder_tree(tree, max_depth)
    /\ pc' = "done"
    /\ UNCHANGED <<tree, max_depth, licenseVars, gitVars, docsVars, countVars,
                   stackVars, readmeVars, outVars>>

NextTree == RenderTree

SpecTree == InitTree /\ [][NextTree]_vars

\* ----------------------------------------------------------- Python text
\* The text of a Python file is a sequence of tokens: a triple quote, a line
\* break, a one-line declaration `class <name>...:` or `def <name>...:`
\* (where it stands in the text does not matter to a regular expression: it
\* may be inside a triple-quoted block), or any other word.
Tok(k, n) == [k |-> k, name |-> n]
Q == Tok("q", "")
NL == Tok("nl", "")
ClassDecl(n) == Tok("class", n)
DefDecl(n) == Tok("def", n)
W(x) == Tok("w", x)

IsBlankTok(x) == x.k = "nl"

\* str.strip() on a sequence of tokens whose blank elements Blank(_) tells
NonBlank(s, Blank(_)) == {i \in DOMAIN s : ~Blank(s[i])}
LStrip(s, Blank(_)) ==
    IF NonBlank(s, Blank) = {} THEN <<>>
    ELSE SubSeq(s, SetMin(NonBlank(s, Blank)), Len(s))

RStrip(s, Blank(_)) ==
    IF NonBlank(s, Blank) = {} THEN <<>>
    ELSE SubSeq(s, 1, SetMax(NonBlank(s, Blank)))

Strip(s, Blank(_)) == RStrip(LStrip(s, Blank), Blank)

\* the indices of the tokens of kind k, ascending: re.finditer of the
\* declaration pattern
RECURSIVE MatchesFrom(_, _, _)
MatchesFrom(content, k, i) ==
    IF i > Len(content) THEN <<>>
    ELSE (IF content[i].k = k THEN <<i>> ELSE <<>>) \o MatchesFrom(content, k, i + 1)

Matches(content, k) == MatchesFrom(content, k, 1)

\* re.search(r'"""(.*?)"""', content[start:], re.DOTALL): the first triple
\* quote at or after start that has a later one, and the text between them
DocFound(content, start) ==
    Len(SelectSeq(SubSeq(content, start, Len(content)), LAMBDA x : x.k = "q")) >= 2

DocGroup(content, start) ==
    LET qs == MatchesFrom(content, "q", start)
    IN SubSeq(content, qs[1] + 1, qs[2] - 1)

NoDescription == <<W("No description available")>>

\* the description attached to the declaration matched at index start
DescriptionFromTop(content, start) ==
    IF DocFound(content, 1) THEN Strip(DocGroup(content, 1), IsBlankTok)
    ELSE NoDescription

DescriptionAfter(content, start) ==
    IF DocFound(content, start) THEN Strip(DocGroup(content, start), IsBlankTok)
    ELSE NoDescription

\* len(content.splitlines())
LineCount(content) ==
    Len(Matches(content, "nl"))
      + (IF content # <<>> /\ content[Len(content)].k # "nl" THEN 1 ELSE 0)

\* ----------------------------------------------------------- generate_docs
Item(h, v) == [h |-> h, v |-> v]

\* the (name, description) pairs of the declarations of kind k
Declared(content, k) ==
    LET ms == Matches(content, k)
    IN [j \in DOMAIN ms |->
          [name |-> content[ms[j]].name, doc |-> DescriptionAfter(content, ms[j])]]

\* the lines appended for a list of (name, description) pairs
EntryItems(pairs) ==
    Concat([j \in DOMAIN pairs |->
              <<Item("####", <<pairs[j].name>>), Item("doc", pairs[j].doc), Item("---", <<>>)>>])

\* doc_content for one file that was read: lines 33 to 87
DocContent(module_name, content, rel) ==
    <<Item("## Module", <<module_name>>)>>
    \o (IF DocFound(content, 1)
        THEN <<Item("**Description:**", Strip(DocGroup(content, 1), IsBlankTok))>>
        ELSE <<>>)
    \o (IF Declared(content, "class") # <<>>
        THEN <<Item("### Classes", <<>>)>> \o EntryItems(Declared(content, "class"))
        ELSE <<>>)
    \o (IF Declared(content, "def") # <<>>
        THEN <<Item("### Functions", <<>>)>> \o EntryItems(Declared(content, "def"))
        ELSE <<>>)
    \o <<Item("**File:**", <<rel>>), Item("**Lines of Code:**", <<LineCount(content)>>)>>

\* s.replace(old, new) for one-character old
RECURSIVE ReplaceChar(_, _, _)
ReplaceChar(s, old, new) ==
    IF Len(s) = 0 THEN ""
    ELSE (IF Char(s, 1) = old THEN new ELSE Char(s, 1))
         \o ReplaceChar(SubSeq(s, 2, Len(s)), old, new)

\* rel_path[:-3].replace(os.sep, ".")
ModuleName(p) ==
    LET rel == RelPath(p) IN ReplaceChar(SubSeq(rel, 1, Len(rel) - 3), "/", ".")

\* the error open/read raises on a file, "" when it is read
ReadError(t, p) ==
    IF EntryAt(t, p).kind = "badlink" THEN "FileNotFoundError"
    ELSE IF ~EntryAt(t, p).ok THEN "UnicodeDecodeError"
    ELSE ""

\* lines 15 to 17: the paths of the files the discovery walk keeps
DiscoveredFiles(t) ==
    SelectSeq(WalkFiles(t, {}),
              LAMBDA p : EndsWith(BaseName(p), ".py") /\ ~StartsWith(BaseName(p), "."))

\* lines 14 to 22: the discovery walk
Discover ==
    /\ pc = "discover"
    /\ LET found == DiscoveredFiles(tree)
       IN /\ py_files' = [i \in DOMAIN found |->
                            [module_name |-> ModuleName(found[i]), file_path |-> found[i]]]
          /\ rel_path' = IF found = <<>> THEN ""
                         ELSE RelPath(found[Len(found)])
          /\ IF found = <<>>
             THEN /\ documentation' = <<Item("# No Python modules found for documentation.", <<>>)>>
                  /\ pc' = "done"
             ELSE /\ documentation' = documentation
                  /\ pc' = "files"
    /\ UNCHANGED <<tree, doc_i, docs, skipped, licenseVars, gitVars, countVars, stackVars, renderVars, readmeVars, outVars>>

\* what the except clause of the per-file loop does with a raised error
HandleDropped(m, err) == skipped

HandleRaised(m, err) ==
    Append(skipped, <<m, err, "Traceback (most recent call last):\n" \o err \o "\n">>)

\* lines 27 to 93: one iteration of the per-file loop
DocumentFile ==
    /\ pc = "files"
    /\ doc_i < Len(py_files)
    /\ doc_i' = doc_i + 1
    /\ LET f == py_files[doc_i + 1]
           err == ReadError(tree, f.file_path)
       IN IF err = ""
          THEN /\ docs' = Append(docs, DocContent(f.module_name,
                                   EntryAt(tree, f.file_path).text, rel_path))
               /\ skipped' = skipped
          ELSE /\ skipped' = HandleRaised(f.module_name, err)
               /\ docs' = docs
    /\ UNCHANGED <<tree, pc, py_files, rel_path, documentation, licenseVars, gitVars, countVars, stackVars, renderVars, readmeVars, outVars>>

\* lines 95 to 111: the page
RenderDocs ==
    /\ pc = "files"
    /\ doc_i = Len(py_files)
    /\ LET result ==
             [i \in DOMAIN docs |-> Item("section", docs[i])]
             \o (IF skipped # <<>>
                 THEN <<Item("Skipped Modules", <<>>)>>
                      \o [i \in DOMAIN skipped |-> Item("skipped", skipped[i])]
                      \o <<Item("Some modules could not be documented due to import or render errors.", <<>>)>>
                 ELSE <<>>)
       IN documentation' =
             IF result # <<>> THEN result
             ELSE <<Item("# No documentation could be generated.", <<>>)>>
    /\ pc' = "done"
    /\ UNCHANGED <<tree, py_files, rel_path, doc_i, docs, skipped, licenseVars, gitVars, countVars, stackVars, renderVars, readmeVars, outVars>>

\* --------------------------------------------------- inputs: Python trees
\* what a description may hold: a word, or prose that reads like a
\* declaration ("class K:", "def g():")
DescTokens == {W("x"), ClassDecl("K"), DefDecl("g")}
Descriptions == UNION {[1..k -> DescTokens] : k \in 1..MaxDescLen}
Bodies == {<<W("pass")>>, <<W("s"), W("="), Q, W("x"), Q>>}

\* a module description, then class C with a description, then function f
\* without one
ShapeText(md, cd, body) ==
    <<Q, NL>> \o md \o <<NL, Q, NL>>
    \o <<ClassDecl("C"), NL, Q>> \o cd \o <<Q, NL>>
    \o <<DefDecl("f"), NL>> \o body \o <<NL>>

ShapeTexts == {ShapeText(md, cd, body) : md \in Descriptions, cd \in Descriptions, body \in Bodies}

OtherTexts ==
    { <<>>,
      <<DefDecl("f"), NL, Q, W("x"), Q, NL>>,
      <<W("x"), NL, ClassDecl("C"), NL, W("pass")>> }

FileStates(p, texts, n) ==
    {{}} \cup {{EntryOrd(p, "file", FALSE, <<>>, n)}}
         \cup {{EntryOrd(p, "badlink", FALSE, <<>>, n)}}
         \cup {{EntryOrd(p, "file", TRUE, c, n)} : c \in texts}

\* a package directory, listable or not, with one module, decodable or not
PkgStates(n) ==
    {{}} \cup
    {{EntryOrd(<<"pkg">>, "dir", o, <<>>, n),
      EntryOrd(<<"pkg", "mod.py">>, "file", r, <<W("x")>>, 1)} : o \in BOOLEAN, r \in BOOLEAN}

\* alpha.py is listed before or after beta.py; a hidden .py file and a text
\* file are always there; every text of these trees is a token sequence
DocsTrees ==
    {{EntryOrd(<<>>, "dir", TRUE, <<>>, 0),
      EntryOrd(<<".hid.py">>, "file", TRUE, <<W("x")>>, 4),
      EntryOrd(<<"notes.txt">>, "file", TRUE, <<W("x")>>, 5)} \cup a \cup b \cup c :
        a \in UNION {FileStates(<<"alpha.py">>, ShapeTexts \cup OtherTexts, n) : n \in {1, 3}},
        b \in FileStates(<<"beta.py">>, {<<W("x")>>}, 2),
        c \in PkgStates(0)}

\* --------------------------------------------------------------- SpecDocs
InitDocs ==
    /\ tree \in DocsTrees
    /\ pc = "discover"
    /\ py_files = <<>> /\ rel_path = "" /\ doc_i = 0
    /\ docs = <<>> /\ skipped = <<>> /\ documentation = <<>>
    /\ LicenseIdle /\ GitIdle /\ CountIdle /\ StacksIdle /\ RenderIdle /\ ReadmeIdle /\ OutIdle

NextDocs == Discover \/ DocumentFile \/ RenderDocs

SpecDocs == InitDocs /\ [][NextDocs]_vars

\* ------------------------------------------------------------ get_git_info
\* The four subprocess.run calls, in the order of the code.  A query answers
\* "ok" (return code 0, with its stdout), "nonzero" (another return code) or
\* "raise" (subprocess.run raises: git is missing, or text=True cannot
\* decode the output).
Queries == <<"last_commit", "branch", "remote", "commit_count">>

Answer(o, out) == [outcome |-> o, stdout |-> out]

QueryAnswers(q) ==
    {Answer("nonzero", ""), Answer("raise", "")} \cup
    CASE q = "last_commit"  -> {Answer("ok", "0123456789abcdef|Ann|ann@x.org|Mon Jan 1|first\n"),
                                Answer("ok", "")}
      [] q = "branch"       -> {Answer("ok", "main\n"), Answer("ok", "")}
      [] q = "remote"       -> {Answer("ok", "https://host/u/repo.git\n")}
      [] q = "commit_count" -> {Answer("ok", "7\n")}

GitWorlds ==
    {<<a, b, c, d>> : a \in QueryAnswers(Queries[1]), b \in QueryAnswers(Queries[2]),
                      c \in QueryAnswers(Queries[3]), d \in QueryAnswers(Queries[4])}

\* d[k] = v on a dictionary kept as a function
SetKey(d, k, v) == [x \in (DOMAIN d) \cup {k} |-> IF x = k THEN v ELSE d[x]]

EmptyDict == <<>>

\* s.split(sep) for a one-character sep
RECURSIVE Split(_, _)
Split(s, sep) ==
    LET at == {i \in 1..Len(s) : Char(s, i) = sep}
    IN IF at = {} THEN <<s>>
       ELSE <<SubSeq(s, 1, SetMin(at) - 1)>> \o Split(SubSeq(s, SetMin(at) + 1, Len(s)), sep)

\* the value a query stores under its key
QueryValue(q, stdout) ==
    IF q = "last_commit"
    THEN LET parts == Split(StripStr(stdout), "|")
         IN [hash |-> SubSeq(parts[1], 1, 8), author |-> parts[2], email |-> parts[3],
             date |-> parts[4], message |-> parts[5]]
    ELSE StripStr(stdout)

\* the condition under which a query stores its key
QueryStores(q, a) ==
    /\ a.outcome = "ok"
    /\ q = "last_commit" => Len(Split(StripStr(a.stdout), "|")) >= 5

\* the position after query i when nothing was raised
AfterQuery(i) == IF i = Len(Queries) THEN "done" ELSE Queries[i + 1]

\* the `if result.returncode == 0` block under query i, answered by a
GitStep(info, i, a) ==
    IF QueryStores(Queries[i], a) THEN SetKey(info, Queries[i], QueryValue(Queries[i], a.stdout))
    ELSE info

\* one query of get_git_info and the block under it; a raised error leaves
\* the try block for `except Exception: pass`
RunQuery(i) ==
    /\ pc = Queries[i]
    /\ git_info' = GitStep(git_info, i, git[i])
    /\ pc' = IF git[i].outcome = "raise" THEN "done" ELSE AfterQuery(i)
    /\ UNCHANGED <<tree, git, licenseVars, docsVars, countVars, stackVars, renderVars, readmeVars, outVars>>

\* the dictionary from query i on, in a repository that answers as world
RECURSIVE GitInfoFrom(_, _, _)
GitInfoFrom(world, i, info) ==
    IF i > Len(Queries) \/ world[i].outcome = "raise" THEN info
    ELSE GitInfoFrom(world, i + 1, GitStep(info, i, world[i]))

\* the dictionary get_git_info returns
get_git_info(world) == GitInfoFrom(world, 1, EmptyDict)

\* ---------------------------------------------------------------- SpecGit
InitGit ==
    /\ tree = {RootEntry(TRUE)}
    /\ git \in GitWorlds
    /\ git_info = EmptyDict
    /\ pc = Queries[1]
    /\ LicenseIdle /\ DocsIdle /\ CountIdle /\ StacksIdle /\ RenderIdle /\ ReadmeIdle /\ OutIdle

NextGit == \E i \in 1..Len(Queries) : RunQuery(i)

SpecGit == InitGit /\ [][NextGit]_vars

\* ---------------------------------------------------- detect_main_script
main_patterns == <<
    "main.py", "app.py", "server.py", "run.py", "start.py", "manage.py",
    "wsgi.py", "asgi.py", "cli.py", "bot.py", "bot.py",
    "index.js", "index.ts", "app.js", "app.ts", "server.js", "server.ts",
    "main.js", "main.ts", "start.js", "start.ts",
    "Main.java", "Application.java", "App.java", "Server.java",
    "main.go", "server.go", "app.go",
    "main.rs", "lib.rs",
    "index.php", "app.php", "server.php",
    "app.rb", "main.rb", "server.rb" >>

\* line 179
HasMainMarker(content) ==
    Contains(content, "if __name__ == \"__main__\"") \/ Contains(content, "def main(")

\* the first file of the walk that bears any listed name
MainScriptInWalkOrder(t, w, fs) ==
    LET named == {j \in DOMAIN fs : \E i \in DOMAIN main_patterns :
                                       main_patterns[i] = BaseName(fs[j])}
        marked == {j \in DOMAIN fs : /\ EndsWith(BaseName(fs[j]), ".py")
                                     /\ CanRead(t, fs[j])
                                     /\ HasMainMarker(EntryAt(t, fs[j]).text)}
    IN IF named # {} THEN RelPath(fs[SetMin(named)])
       ELSE IF marked # {} THEN RelPath(fs[SetMin(marked)])
       ELSE ""

\* the relative path returned, "" where the code returns None; w is
\* os.walk(repo_path) and fs the files in the order the second loop visits
MainScriptIn(t, w, fs) ==
    LET named == {i \in DOMAIN main_patterns :
                     \E k \in DOMAIN w : main_patterns[i] \in Range(w[k].files)}
        marked == {j \in DOMAIN fs : /\ EndsWith(BaseName(fs[j]), ".py")
                                     /\ CanRead(t, fs[j])
                                     /\ HasMainMarker(EntryAt(t, fs[j]).text)}
    IN IF named # {}
       THEN LET pattern == main_patterns[SetMin(named)]
                k == SetMin({j \in DOMAIN w : pattern \in Range(w[j].files)})
            IN RelPath(Append(w[k].root, pattern))
       ELSE IF marked # {} THEN RelPath(fs[SetMin(marked)])
       ELSE ""

detect_main_script(t) == MainScriptIn(t, Walk(t, <<>>, {}), WalkFiles(t, {}))

\* ------------------------------------------------ extract_module_docstring
\* where sub first occurs in s at or after position from; 0 if nowhere
IndexFrom(s, sub, from) ==
    LET at == {i \in from..(Len(s) - Len(sub) + 1) : SubSeq(s, i, i + Len(sub) - 1) = sub}
    IN IF at = {} THEN 0 ELSE SetMin(at)

TripleQuote == "\"\"\""

\* re.search(r'"""(.*?)"""', content, re.DOTALL): group(1).strip() of the
\* match, none when nothing matches
FirstDocstring(content) ==
    LET open == IndexFrom(content, TripleQuote, 1)
        close == IF open = 0 THEN 0 ELSE IndexFrom(content, TripleQuote, open + 3)
    IN IF close = 0 THEN [found |-> FALSE, doc |-> ""]
       ELSE [found |-> TRUE, doc |-> StripStr(SubSeq(content, open + 3, close - 1))]

\* the docstring returned, "" where the code returns None
extract_module_docstring(t) ==
    LET fs == WalkFiles(t, {})
        Meaningful(p) == /\ EndsWith(BaseName(p), ".py") /\ ~StartsWith(BaseName(p), ".")
                         /\ CanRead(t, p)
                         /\ FirstDocstring(EntryAt(t, p).text).found
                         /\ Len(FirstDocstring(EntryAt(t, p).text).doc) > 20
        docstrings == SelectSeq(fs, Meaningful)
        longest == {i \in DOMAIN docstrings :
                       \A j \in DOMAIN docstrings :
                           Len(FirstDocstring(EntryAt(t, docstrings[j]).text).doc)
                              <= Len(FirstDocstring(EntryAt(t, docstrings[i]).text).doc)}
    IN IF docstrings = <<>> THEN ""
       ELSE FirstDocstring(EntryAt(t, docstrings[SetMin(longest)]).text).doc

\* ------------------------------------------------------ analyze_dependencies
python_files == <<"requirements.txt", "requirements-dev.txt", "pyproject.toml", "setup.py",
                  "setup.cfg", "pipfile", "pipfile.lock">>
node_files == <<"package.json", "package-lock.json", "yarn.lock", "pnpm-lock.yaml">>
java_files == <<"pom.xml", "build.gradle", "build.gradle.kts", "gradle.properties">>

\* the loops `for f in names: if exists: dependencies[tech] = f; break`
FirstExisting(t, tech, names) ==
    LET there == {i \in DOMAIN names : Exists(t, names[i])}
    IN IF there = {} THEN <<>> ELSE <<<<tech, names[SetMin(there)]>>>>

\* the dictionary as (technology, file) pairs in insertion order
analyze_dependencies(t) ==
    FirstExisting(t, "Python", python_files)
    \o FirstExisting(t, "Node.js", node_files)
    \o FirstExisting(t, "Java", java_files)
    \o FirstExisting(t, "Go", <<"go.mod">>)
    \o FirstExisting(t, "Rust", <<"Cargo.toml">>)
    \o FirstExisting(t, "PHP", <<"composer.json">>)
    \o FirstExisting(t, "Ruby", <<"Gemfile">>)
    \o (IF Exists(t, "*.csproj") \/ Exists(t, "*.sln") THEN <<<<".NET", "*.csproj/*.sln">>>>
        ELSE <<>>)

\* ------------------------------------------------- analyze_code_complexity
\* lines 443 to 452
ZeroComplexity ==
    [total_lines |-> 0, code_lines |-> 0, comment_lines |-> 0, blank_lines |-> 0,
     functions |-> 0, classes |-> 0, imports |-> 0, docstrings |-> 0]

\* lines 465 to 471: what a line counts as
LineKind(line) ==
    LET stripped == StripStr(line)
    IN IF StartsWith(stripped, "#") THEN "comment"
       ELSE IF stripped = "" THEN "blank"
       ELSE "code"

\* how many of the lines are of the kind
LinesOfKind(lines, kind) == Cardinality({i \in DOMAIN lines : LineKind(lines[i]) = kind})

\* the positions ^ matches under re.MULTILINE
LineStarts(content) ==
    {i \in 1..Len(content) : i = 1 \/ Char(content, i - 1) = "\n"}

\* len(re.findall(r'^word\s+', content, re.MULTILINE))
KeywordLines(content, word) ==
    Cardinality({i \in LineStarts(content) :
                    /\ i + Len(word) <= Len(content)
                    /\ SubSeq(content, i, i + Len(word) - 1) = word
                    /\ IsSpace(Char(content, i + Len(word)))})

\* len(re.findall(r'""".*?"""', content, re.DOTALL)) from position from on
RECURSIVE DocstringsFrom(_, _)
DocstringsFrom(content, from) ==
    LET open == IndexFrom(content, TripleQuote, from)
        close == IF open = 0 THEN 0 ELSE IndexFrom(content, TripleQuote, open + 3)
    IN IF close = 0 THEN 0 ELSE 1 + DocstringsFrom(content, close + 3)

\* an undecodable file is counted as one line before the read fails
FileComplexityCountingUnread(t, p) ==
    IF ~CanRead(t, p) THEN [ZeroComplexity EXCEPT !.total_lines = 1]
    ELSE LET content == EntryAt(t, p).text
             lines == Split(content, "\n")
         IN [total_lines |-> Len(lines),
             code_lines |-> LinesOfKind(lines, "code"),
             comment_lines |-> LinesOfKind(lines, "comment"),
             blank_lines |-> LinesOfKind(lines, "blank"),
             functions |-> KeywordLines(content, "def"),
             classes |-> KeywordLines(content, "class"),
             imports |-> KeywordLines(content, "import") + KeywordLines(content, "from"),
             docstrings |-> DocstringsFrom(content, 1)]

\* lines 457 to 480: what one Python file adds to the counters; open or
\* f.read() raises before any counter is touched
FileComplexity(t, p) ==
    IF ~CanRead(t, p) THEN ZeroComplexity
    ELSE LET content == EntryAt(t, p).text
             lines == Split(content, "\n")
         IN [total_lines |-> Len(lines),
             code_lines |-> LinesOfKind(lines, "code"),
             comment_lines |-> LinesOfKind(lines, "comment"),
             blank_lines |-> LinesOfKind(lines, "blank"),
             functions |-> KeywordLines(content, "def"),
             classes |-> KeywordLines(content, "class"),
             imports |-> KeywordLines(content, "import") + KeywordLines(content, "from"),
             docstrings |-> DocstringsFrom(content, 1)]

\* line 456: the files the loop analyses
IsAnalysed(file) == EndsWith(file, ".py") /\ ~StartsWith(file, ".")

\* the counters with the counts of one file added
AddComplexity(c, d) == [k \in DOMAIN c |-> c[k] + d[k]]

\* ----------------------------------------------------------- generate_readme
\* The texts below keep the headings and every computed value of the
\* f-strings of lines 519 to 625; the pictographs, the backquotes, the code
\* fences, the size rows, the Code Analysis table and the timestamp are left
\* out, and the box-drawing connectors of the tree are written in ASCII.

\* line 341, os.path.basename(os.path.abspath(repo_path))
RepoName == "repo"

\* the index of the first character at or after i that is not white space
\* (one past the end when there is none): what \s* leaves
SkipSpace(s, i) ==
    LET at == {j \in i..Len(s) : ~IsSpace(Char(s, j))}
    IN IF at = {} THEN Len(s) + 1 ELSE SetMin(at)

IsQuote(c) == c = "\"" \/ c = "'"

\* the group of name\s*=\s*["\']([^"\']+)["\'] matched at index i, "" when
\* the pattern does not match there
NameGroupAt(s, i) ==
    IF i + 3 > Len(s) \/ SubSeq(s, i, i + 3) # "name" THEN ""
    ELSE LET eq == SkipSpace(s, i + 4)
             open == SkipSpace(s, eq + 1)
             close == {j \in (open + 1)..Len(s) : IsQuote(Char(s, j))}
         IN IF /\ eq <= Len(s) /\ Char(s, eq) = "="
               /\ open <= Len(s) /\ IsQuote(Char(s, open))
               /\ close # {} /\ SetMin(close) > open + 1
            THEN SubSeq(s, open + 1, SetMin(close) - 1)
            ELSE ""

\* re.search of that pattern: group(1) of the leftmost match, "" for None
NameMatch(content) ==
    LET at == {i \in 1..Len(content) : NameGroupAt(content, i) # ""}
    IN IF at = {} THEN "" ELSE NameGroupAt(content, SetMin(at))

\* lines 300 to 315: the name of the first of setup.py and pyproject.toml
\* that exists, can be read and matches the pattern; "" when neither does
RECURSIVE ConfigName(_, _)
ConfigName(t, config_files) ==
    IF config_files = <<>> THEN ""
    ELSE LET config_file == Head(config_files)
         IN IF /\ Exists(t, config_file) /\ CanRead(t, <<config_file>>)
               /\ NameMatch(EntryAt(t, <<config_file>>).text) # ""
            THEN NameMatch(EntryAt(t, <<config_file>>).text)
            ELSE ConfigName(t, Tail(config_files))

\* a JSON string literal without escapes
IsJsonString(x) ==
    /\ Len(x) >= 2 /\ Char(x, 1) = "\"" /\ Char(x, Len(x)) = "\""
    /\ \A j \in 2..(Len(x) - 1) : Char(x, j) # "\""

\* json.load on a flat object of string members: the (key, value) pairs;
\* ok is FALSE where json.load raises (an empty or truncated text)
JsonLoad(text) ==
    LET body == StripStr(text)
        inner == StripStr(SubSeq(body, 2, Len(body) - 1))
        members == Split(inner, ",")
        Key(x) == StripStr(Split(x, ":")[1])
        Value(x) == StripStr(Split(x, ":")[2])
        WellFormed(x) == /\ Len(Split(x, ":")) = 2
                         /\ IsJsonString(Key(x)) /\ IsJsonString(Value(x))
        Unquote(x) == SubSeq(x, 2, Len(x) - 1)
    IN IF ~(Len(body) >= 2 /\ Char(body, 1) = "{" /\ Char(body, Len(body)) = "}")
       THEN [ok |-> FALSE, data |-> <<>>]
       ELSE IF inner = "" THEN [ok |-> TRUE, data |-> <<>>]
       ELSE IF \A j \in DOMAIN members : WellFormed(members[j])
       THEN [ok |-> TRUE,
             data |-> [j \in DOMAIN members |->
                         <<Unquote(Key(members[j])), Unquote(Value(members[j]))>>]]
       ELSE [ok |-> FALSE, data |-> <<>>]

\* lines 318 to 326: data["name"] of package.json (a repeated key keeps its
\* last value), with found FALSE when the file is not there, cannot be read
\* or parsed, or has no such key
PackageName(t) ==
    IF ~(Exists(t, "package.json") /\ CanRead(t, <<"package.json">>))
    THEN [found |-> FALSE, name |-> ""]
    ELSE LET loaded == JsonLoad(EntryAt(t, <<"package.json">>).text)
             at == {j \in DOMAIN loaded.data : loaded.data[j][1] = "name"}
         IN IF loaded.ok /\ at # {}
            THEN [found |-> TRUE, name |-> loaded.data[SetMax(at)][2]]
            ELSE [found |-> FALSE, name |-> ""]

\* the lines of a text as iterating over the file yields them, line ends
\* dropped
FileLines(text) ==
    IF text = "" THEN <<>>
    ELSE IF EndsWith(text, "\n") THEN Split(SubSeq(text, 1, Len(text) - 1), "\n")
    ELSE Split(text, "\n")

\* os.path.basename(url)
UrlBaseName(url) ==
    LET at == {i \in 1..Len(url) : Char(url, i) = "/"}
    IN IF at = {} THEN url ELSE SubSeq(url, SetMax(at) + 1, Len(url))

\* os.path.splitext(name)[0]
SplitRoot(name) == SubSeq(name, 1, Len(name) - Len(SplitExt(name)))

\* lines 329 to 338: the first line of .git/config that starts with "url ="
\* once stripped gives the name
RemoteName(t) ==
    LET git_config == <<".git", "config">>
    IN IF ~(/\ HasEntry(t, <<".git">>) /\ EntryAt(t, <<".git">>).kind = "dir"
            /\ CanRead(t, git_config))
       THEN [found |-> FALSE, name |-> ""]
       ELSE LET lines == FileLines(EntryAt(t, git_config).text)
                at == {j \in DOMAIN lines : StartsWith(StripStr(lines[j]), "url =")}
            IN IF at = {} THEN [found |-> FALSE, name |-> ""]
               ELSE LET line == lines[SetMin(at)]
                        eq == IndexFrom(line, "=", 1)
                        url == StripStr(SubSeq(line, eq + 1, Len(line)))
                    IN [found |-> TRUE, name |-> SplitRoot(UrlBaseName(url))]

\* package.json asked before setup.py and pyproject.toml
get_project_name_package_first(t) ==
    IF PackageName(t).found THEN PackageName(t).name
    ELSE IF ConfigName(t, <<"setup.py", "pyproject.toml">>) # ""
    THEN ConfigName(t, <<"setup.py", "pyproject.toml">>)
    ELSE IF RemoteName(t).found THEN RemoteName(t).name
    ELSE RepoName

\* lines 297 to 341: the first source that gives a name, in the order the
\* code asks them
get_project_name(t) ==
    IF ConfigName(t, <<"setup.py", "pyproject.toml">>) # ""
    THEN ConfigName(t, <<"setup.py", "pyproject.toml">>)
    ELSE IF PackageName(t).found THEN PackageName(t).name
    ELSE IF RemoteName(t).found THEN RemoteName(t).name
    ELSE RepoName

\* the default of the parameter max_depth
default_max_depth == 3

\* sep.join(parts)
RECURSIVE Join(_, _)
Join(parts, sep) ==
    IF parts = <<>> THEN ""
    ELSE IF Len(parts) = 1 THEN parts[1]
    ELSE parts[1] \o sep \o Join(Tail(parts), sep)

RECURSIVE PrefixText(_)
PrefixText(flags) ==
    IF flags = <<>> THEN ""
    ELSE (IF Head(flags) THEN "    " ELSE "|   ") \o PrefixText(Tail(flags))

\* lines 88 to 98: the text of one line of the tree
LineText(line) ==
    PrefixText(line.prefix) \o (IF line.last THEN "+-- " ELSE "|-- ")
    \o (IF line.is_dir
        THEN "**" \o BaseName(line.path) \o "/** (" \o ToString(line.file_count) \o " files)"
        ELSE BaseName(line.path))

\* line 101
FolderText(lines) == Join([i \in DOMAIN lines |-> LineText(lines[i])], "\n")

\* line 493 with rstrip() in the place of strip()
ReadTextRightStripped(text) == StripRight(text)

\* line 493: f.read().strip()
ReadText(text) == StripStr(text)

\* lines 489 to 493: base_readme, "" where the code leaves None, or that
\* open or read raised
ReadBase(t) ==
    IF ~Exists(t, "README.md") THEN [raised |-> FALSE, base |-> ""]
    ELSE IF ~CanRead(t, <<"README.md">>) THEN [raised |-> TRUE, base |-> ""]
    ELSE [raised |-> FALSE, base |-> ReadText(EntryAt(t, <<"README.md">>).text)]

HasTech(dependencies, tech) == \E i \in DOMAIN dependencies : dependencies[i][1] = tech

\* line 533
InstallLine(dependencies) ==
    IF HasTech(dependencies, "Python") THEN "pip install -r requirements.txt"
    ELSE IF HasTech(dependencies, "Node.js") THEN "npm install"
    ELSE "See dependency files for installation instructions"

\* line 547
TechnologyLines(dependencies) ==
    IF dependencies = <<>> THEN "No dependency files detected."
    ELSE Join([i \in DOMAIN dependencies |->
                 "- **" \o dependencies[i][1] \o "**: " \o dependencies[i][2]], "\n")

\* line 555
LanguagesCell(counter) ==
    IF counter = <<>> THEN "Unknown"
    ELSE Join([i \in DOMAIN counter |->
                 counter[i][1] \o " (" \o ToString(counter[i][2]) \o ")"], ", ")

\* git_info.get(key) is truthy
Truthy(info, key) == key \in DOMAIN info /\ info[key] # ""

\* lines 575 to 578
RepositoryLines(info) ==
    (IF Truthy(info, "branch") THEN "- **Branch**: " \o info["branch"] ELSE "") \o "\n"
    \o (IF "last_commit" \in DOMAIN info
        THEN "- **Last Commit**: " \o info["last_commit"].hash
             \o " by " \o info["last_commit"].author
        ELSE "") \o "\n"
    \o (IF Truthy(info, "commit_count") THEN "- **Total Commits**: " \o info["commit_count"]
        ELSE "") \o "\n"
    \o (IF Truthy(info, "remote") THEN "- **Remote**: " \o info["remote"] ELSE "")

\* lines 536 to 539: the command of the usage section
UsageLine(main_script) ==
    IF main_script # "" THEN "python " \o main_script
    ELSE "See source code for entry point"

\* lines 519 to 606
ExtraSections(name, folder, main_script, counts, license, dependencies, info) ==
    "## Quick Start\n\n### Installation\ncd " \o name \o "\n\n"
    \o InstallLine(dependencies) \o "\n\n### Usage\n"
    \o UsageLine(main_script)
    \o "\n\n## Project Structure\n" \o folder
    \o "\n\n## Technology Stack\n" \o TechnologyLines(dependencies)
    \o "\n\n## Repository Statistics\n| **Total Files** | " \o ToString(counts.total_files)
    \o " |\n| **Languages** | " \o LanguagesCell(counts.lang_counts)
    \o " |\n\n## Entry Point\n" \o (IF main_script # "" THEN main_script ELSE "Not detected")
    \o "\n\n## License\n" \o license
    \o "\n\n## Repository Information\n" \o RepositoryLines(info)
    \o "\n\n## Contributing\n\n---\n\n<div align=\"center\">\n\n</div>"

\* line 609
Separator == "\n\n---\n\n"

\* line 507
Description(docstring, dependencies) ==
    IF docstring # "" THEN docstring
    ELSE "A professional "
         \o Join(IF dependencies = <<>> THEN <<"Python">>
                 ELSE [i \in DOMAIN dependencies |-> dependencies[i][1]], ", ")
         \o " project with comprehensive documentation and analysis."

\* lines 611 to 625
FreshReadme(name, counts, license, description, extra_sections) ==
    "# " \o name \o "\n\n<div align=\"center\">\n\n"
    \o "Files-" \o ToString(counts.total_files)
    \o "\nLanguages-" \o ToString(Len(counts.lang_counts))
    \o "\nLicense-" \o ReplaceChar(license, " ", "%20")
    \o "\n\n</div>\n\n## Description\n" \o description \o "\n\n" \o extra_sections

\* lines 608 to 625
Compose(base_readme, name, counts, license, description, extra_sections) ==
    IF base_readme # "" THEN base_readme \o Separator \o StripStr(extra_sections)
    ELSE FreshReadme(name, counts, license, description, extra_sections)

\* generate_readme: the text returned, or that an error left the function
generate_readme(t, world) ==
    IF ReadBase(t).raised \/ get_folder_tree(t, default_max_depth).raised
    THEN [raised |-> TRUE, text |-> ""]
    ELSE [raised |-> FALSE,
          text |-> Compose(ReadBase(t).base, get_project_name(t),
                           count_files_and_languages(t), detect_license(t),
                           Description(extract_module_docstring(t), analyze_dependencies(t)),
                           ExtraSections(get_project_name(t),
                                         FolderText(get_folder_tree(t, default_max_depth).lines),
                                         detect_main_script(t),
                                         count_files_and_languages(t), detect_license(t),
                                         analyze_dependencies(t), get_git_info(world)))]

\* ------------------------------------------------------- generate_gitignore
GITIGNORE_TEMPLATES(stack) ==
    CASE stack = "python" ->
           "# Python\n__pycache__/\n*.py[cod]\n*.so\n.venv/\n.env\n.env.*\n*.egg-info/\ndist/\nbuild/\n.ipynb_checkpoints/\n"
      [] stack = "jupyter" -> "# Jupyter\n.ipynb_checkpoints/\n*.ipynb\n"
      [] stack = "node" ->
           "# Node.js\nnode_modules/\ndist/\nbuild/\n.env\n.env.*\n.npm/\n.cache/\n*.log\n"
      [] stack = "react" -> "# React\nbuild/\ndist/\nnode_modules/\n.env\n.env.*\n*.log\n"
      [] stack = "java" ->
           "# Java\n*.class\n*.jar\n*.war\n*.ear\n*.iml\n*.log\ntarget/\nbin/\n*.project\n*.classpath\n.settings/\n.idea/\n"
      [] stack = "cpp" ->
           "# C++\n*.o\n*.obj\n*.so\n*.exe\n*.out\nCMakeFiles/\nCMakeCache.txt\nMakefile\ncmake_install.cmake\nbuild/\n"

GENERIC_TEMPLATE == "# General\n.DS_Store\nThumbs.db\n*.swp\n*.swo\n*.bak\n*.tmp\n.env\n.env.*\n"

UpperChar(c) ==
    IF \E i \in 1..Len(LowerLetters) : Char(LowerLetters, i) = c
    THEN Char(UpperLetters, CHOOSE i \in 1..Len(LowerLetters) : Char(LowerLetters, i) = c)
    ELSE c

\* s.capitalize()
Capitalize(s) ==
    IF Len(s) = 0 THEN "" ELSE UpperChar(Char(s, 1)) \o Lower(SubSeq(s, 2, Len(s)))

\* lines 49 to 52 with only the first stack's template taken
SectionsOfFirst(detected) == <<StripStr(GITIGNORE_TEMPLATES(detected[1]))>>

\* lines 49 to 52: the stripped template of every detected stack
Sections(detected) == [i \in DOMAIN detected |-> StripStr(GITIGNORE_TEMPLATES(detected[i]))]

\* generate_gitignore, given the list detect_stacks returned
GitignoreOf(detected) ==
    StripStr(IF detected # <<>>
             THEN "# Auto-generated based on detected languages: "
                  \o Join([i \in DOMAIN detected |-> Capitalize(detected[i])], ", ") \o "\n"
                  \o Join(Sections(detected), "\n\n")
             ELSE "# Auto-generated generic .gitignore\n" \o GENERIC_TEMPLATE)

generate_gitignore(t) == GitignoreOf(detect_stacks(t))

\* ------------------------------------------- inputs: trees with stack evidence
EvidenceEntries ==
    {EntryOrd(<<"tool.py">>, "file", TRUE, "x\n", 1),
     EntryOrd(<<"nb.ipynb">>, "file", TRUE, "x\n", 2),
     EntryOrd(<<"package.json">>, "file", TRUE, "x\n", 3),
     EntryOrd(<<"App.JSX">>, "file", TRUE, "x\n", 4),
     EntryOrd(<<"pom.xml">>, "file", TRUE, "x\n", 5),
     EntryOrd(<<"Makefile">>, "file", TRUE, "x\n", 6),
     EntryOrd(<<"notes.txt">>, "file", TRUE, "x\n", 7),
     EntryOrd(<<"Public">>, "dir", TRUE, "", 8)}

GitignoreTrees == {{RootEntry(TRUE)} \cup S : S \in SUBSET EvidenceEntries}

\* ---------------------------------------------------------- SpecGitignore
InitGitignore ==
    /\ tree \in GitignoreTrees
    /\ pc = "start"
    /\ stacks = <<>>
    /\ gitignore = "" /\ project_name = "" /\ main_found = ""
    /\ complexity = <<>> /\ requirements = "" /\ cloned = {}
    /\ LicenseIdle /\ GitIdle /\ DocsIdle /\ CountIdle /\ RenderIdle /\ ReadmeIdle

GenerateGitignore ==
    /\ pc = "start"
    /\ stacks' = detect_stacks(tree)
    /\ gitignore' = generate_gitignore(tree)
    /\ pc' = "done"
    /\ UNCHANGED <<tree, project_name, main_found, complexity, requirements, cloned,
                   licenseVars, gitVars, docsVars, countVars, renderVars, readmeVars>>

NextGitignore == GenerateGitignore

SpecGitignore == InitGitignore /\ [][NextGitignore]_vars

\* ------------------------------------------ inputs: trees with manifests
\* a file at the root that is absent, a dangling link, undecodable, or holds
\* one of the texts
ManifestStates(name, texts) ==
    {{}, {Entry(<<name>>, "badlink", FALSE, "")}, {Entry(<<name>>, "file", FALSE, "")}}
    \cup {{Entry(<<name>>, "file", TRUE, c)} : c \in texts}

SetupTexts == {"setup(name=\"sp\")\n", "setup(\n  name = 'sp',\n)\n", "setup(version=\"1\")\n"}
PyprojectTexts == {"[project]\nname = \"pp\"\n", "[project]\nversion = \"1\"\n"}
PackageTexts == {"{\"name\": \"pj\"}\n", "{\"version\": \"1\", \"name\": \"pj\"}",
                 "{\"version\": \"1\"}", "{}", "{\"name\": ", ""}
ConfigTexts == {"[remote \"origin\"]\n\turl = https://host/u/proj.git\n",
                "[core]\n\tbare = false\n[remote \"origin\"]\n\turl = git@host:u/proj.git\n",
                "[remote \"origin\"]\n\turl = https://host/u/my.proj\n",
                "[core]\n\tbare = false\n"}

\* .git with its config file, or no .git at all
GitDirStates ==
    {{}} \cup {{Entry(<<".git">>, "dir", TRUE, ""),
                Entry(<<".git", "config">>, "file", TRUE, c)} : c \in ConfigTexts}

NameTrees ==
    {{RootEntry(TRUE)} \cup a \cup b \cup c \cup d :
        a \in ManifestStates("setup.py", SetupTexts),
        b \in ManifestStates("pyproject.toml", PyprojectTexts),
        c \in ManifestStates("package.json", PackageTexts),
        d \in GitDirStates}

\* --------------------------------------------------------------- SpecName
InitName ==
    /\ tree \in NameTrees
    /\ pc = "start"
    /\ gitignore = "" /\ project_name = "" /\ main_found = ""
    /\ complexity = <<>> /\ requirements = "" /\ cloned = {}
    /\ LicenseIdle /\ GitIdle /\ DocsIdle /\ CountIdle /\ StacksIdle /\ RenderIdle /\ ReadmeIdle

GetProjectName ==
    /\ pc = "start"
    /\ project_name' = get_project_name(tree)
    /\ pc' = "done"
    /\ UNCHANGED <<tree, gitignore, main_found, complexity, requirements, cloned,
                   licenseVars, gitVars, docsVars, countVars, stackVars, renderVars, readmeVars>>

NextName == GetProjectName

SpecName == InitName /\ [][NextName]_vars

\* --------------------------------------- inputs: trees with entry points
MarkerTexts == {"if __name__ == \"__main__\":\n    run()\n", "def main():\n    pass\n", "x = 1\n"}

\* a Python file that bears no listed name: absent, undecodable, or with
\* one of the texts
ScriptStates(name, n) ==
    {{}, {EntryOrd(<<name>>, "file", FALSE, "", n)}}
    \cup {{EntryOrd(<<name>>, "file", TRUE, c, n)} : c \in MarkerTexts}

\* directory pkg: absent, empty, holding main.py, or holding main.py one
\* level further down
PkgMainStates ==
    {{}, {EntryOrd(<<"pkg">>, "dir", TRUE, "", 9)},
     {EntryOrd(<<"pkg">>, "dir", TRUE, "", 9),
      EntryOrd(<<"pkg", "main.py">>, "file", TRUE, "x = 1\n", 1)},
     {EntryOrd(<<"pkg">>, "dir", TRUE, "", 9),
      EntryOrd(<<"pkg", "deep">>, "dir", TRUE, "", 1),
      EntryOrd(<<"pkg", "deep", "main.py">>, "file", TRUE, "x = 1\n", 1)}}

MainTrees ==
    {{RootEntry(TRUE)} \cup a \cup b \cup c \cup d \cup e :
        a \in Optional(EntryOrd(<<"app.py">>, "file", TRUE, "x = 1\n", 1)),
        b \in Optional(EntryOrd(<<"index.js">>, "file", TRUE, "x\n", 2)),
        c \in ScriptStates("tool.py", 4),
        d \in UNION {ScriptStates("util.py", n) : n \in {3, 5}},
        e \in PkgMainStates}

\* --------------------------------------------------------------- SpecMain
InitMain ==
    /\ tree \in MainTrees
    /\ pc = "start"
    /\ gitignore = "" /\ project_name = "" /\ main_found = ""
    /\ complexity = <<>> /\ requirements = "" /\ cloned = {}
    /\ LicenseIdle /\ GitIdle /\ DocsIdle /\ CountIdle /\ StacksIdle /\ RenderIdle /\ ReadmeIdle

DetectMainScript ==
    /\ pc = "start"
    /\ main_found' = detect_main_script(tree)
    /\ pc' = "done"
    /\ UNCHANGED <<tree, gitignore, project_name, complexity, requirements, cloned,
                   licenseVars, gitVars, docsVars, countVars, stackVars, renderVars, readmeVars>>

NextMain == DetectMainScript

SpecMain == InitMain /\ [][NextMain]_vars

\* ------------------------------------------ inputs: trees with Python text
SourceTexts ==
    {"", "# c\n\nx = 1\n", "  # c\n\t\nx = 1",
     "import os\nfrom a import b\nclass C:\n    \"\"\"d\"\"\"\n\ndef f():\n    pass\n"}

\* a Python file: absent, a dangling link, undecodable, or with a text
SourceStates(p, texts, n) ==
    {{}, {EntryOrd(p, "badlink", FALSE, "", n)}, {EntryOrd(p, "file", FALSE, "", n)}}
    \cup {{EntryOrd(p, "file", TRUE, c, n)} : c \in texts}

\* a.py before or after b.py, a module in a package, and a hidden Python
\* file and a text file that are never analysed
ComplexityTrees ==
    {{RootEntry(TRUE),
      EntryOrd(<<".hid.py">>, "file", TRUE, "x = 1\n", 4),
      EntryOrd(<<"notes.txt">>, "file", TRUE, "# n\n", 5),
      EntryOrd(<<"pkg">>, "dir", TRUE, "", 6)} \cup a \cup b \cup c :
        a \in UNION {SourceStates(<<"a.py">>, SourceTexts, n) : n \in {1, 3}},
        b \in SourceStates(<<"b.py">>, {"x = 1\n"}, 2),
        c \in SourceStates(<<"pkg", "c.py">>, {"# c\n"}, 1)}

\* --------------------------------------------------------- SpecComplexity
InitComplexity ==
    /\ tree \in ComplexityTrees
    /\ pc = "walk"
    /\ count_i = 0 /\ total_files = 0 /\ lang_counts = <<>>
    /\ total_size = 0 /\ file_sizes = <<>>
    /\ complexity = ZeroComplexity
    /\ gitignore = "" /\ project_name = "" /\ main_found = ""
    /\ requirements = "" /\ cloned = {}
    /\ LicenseIdle /\ GitIdle /\ DocsIdle /\ StacksIdle /\ RenderIdle /\ ReadmeIdle

\* lines 454 to 480: one file of the walk; count_i is the number of files
\* the loop has passed
AnalyseFile ==
    /\ pc = "walk"
    /\ \E fs \in {WalkFiles(tree, {})} :
          /\ count_i < Len(fs)
          /\ count_i' = count_i + 1
          /\ complexity' = IF IsAnalysed(BaseName(fs[count_i + 1]))
                           THEN AddComplexity(complexity, FileComplexity(tree, fs[count_i + 1]))
                           ELSE complexity
    /\ UNCHANGED <<tree, pc, total_files, lang_counts, total_size, file_sizes,
                   gitignore, project_name, main_found, requirements, cloned,
                   licenseVars, gitVars, docsVars, stackVars, renderVars, readmeVars>>

\* line 482
ComplexityReturn ==
    /\ pc = "walk"
    /\ count_i = Len(WalkFiles(tree, {}))
    /\ pc' = "done"
    /\ UNCHANGED <<tree, countVars, outVars,
                   licenseVars, gitVars, docsVars, stackVars, renderVars, readmeVars>>

NextComplexity == AnalyseFile \/ ComplexityReturn

SpecComplexity == InitComplexity /\ [][NextComplexity]_vars

\* ------------------------------------------------ inputs: trees to report on
\* the characters an existing README.md is made of
DocChars == {" ", "\n", "a"}

\* what README.md can be: absent, a dangling link, undecodable, or a file
\* with a text of at most MaxDocLen characters
ReadmeStates ==
    {{}, {EntryOrd(<<"README.md">>, "badlink", FALSE, "", 1)},
         {EntryOrd(<<"README.md">>, "file", FALSE, "", 1)}}
    \cup {{EntryOrd(<<"README.md">>, "file", TRUE, d, 1)} : d \in StringsUpTo(DocChars, MaxDocLen)}

\* the words of the LICENSE file; "limitations" and "License" are words of
\* the Apache License 2.0 itself
ApacheWords == {"Apache", "License", "Version", "limitations"}

LicenseStates ==
    {{}} \cup {{EntryOrd(<<"LICENSE">>, "file", TRUE, c, 2)} :
                  c \in TextsUpTo(ApacheWords, MaxLicenseWords)}

RequirementsTxt == EntryOrd(<<"requirements.txt">>, "file", TRUE, "flask\n", 3)

ToolStates ==
    {{EntryOrd(<<"tool.py">>, "file", o, c, 4)} :
        o \in BOOLEAN,
        c \in {"def main():\n    pass\n", "if __name__ == \"__main__\":\n    run()\n", "x = 1\n"}}

\* a directory that cannot be listed, at the root or four names deep
DataStates ==
    {{}, {EntryOrd(<<"data">>, "dir", FALSE, "", 5)},
         {EntryOrd(<<"a">>, "dir", TRUE, "", 5), EntryOrd(<<"a", "b">>, "dir", TRUE, "", 1),
          EntryOrd(<<"a", "b", "c">>, "dir", TRUE, "", 1),
          EntryOrd(<<"a", "b", "c", "d">>, "dir", FALSE, "", 1)}}

MainTool == {EntryOrd(<<"tool.py">>, "file", TRUE, "def main():\n    pass\n", 4)}
ApacheLicense == {EntryOrd(<<"LICENSE">>, "file", TRUE, "Apache\nLicense\n", 2)}

ReadmeTrees ==
    {{RootEntry(FALSE)}}
    \cup {{RootEntry(TRUE), RequirementsTxt} \cup MainTool \cup ApacheLicense \cup r :
             r \in ReadmeStates}
    \cup {{RootEntry(TRUE), RequirementsTxt} \cup MainTool \cup l \cup r :
             l \in LicenseStates,
             r \in Optional(EntryOrd(<<"README.md">>, "file", TRUE, "a\n", 1))}
    \cup {{RootEntry(TRUE)} \cup q \cup p \cup ApacheLicense \cup d :
             q \in Optional(RequirementsTxt) \cup {{EntryOrd(<<"yarn.lock">>, "file", TRUE, "", 3)}},
             p \in ToolStates, d \in DataStates}

\* the repository answers every query, none, or raises on the first
ReadmeGitWorlds ==
    {w \in GitWorlds : \/ \A i \in DOMAIN w : w[i].outcome = "ok" /\ w[i].stdout # ""
                       \/ \A i \in DOMAIN w : w[i].outcome = "nonzero"
                       \/ /\ w[1].outcome = "raise"
                          /\ \A i \in 2..Len(w) : w[i].outcome = "ok" /\ w[i].stdout # ""}

\* -------------------------------------------------------------- SpecReadme
InitReadme ==
    /\ tree \in ReadmeTrees
    /\ git \in ReadmeGitWorlds
    /\ git_info = EmptyDict
    /\ readme = [raised |-> FALSE, text |-> ""]
    /\ pc = "start"
    /\ LicenseIdle /\ DocsIdle /\ CountIdle /\ StacksIdle /\ RenderIdle /\ OutIdle

GenerateReadme ==
    /\ pc = "start"
    /\ readme' = generate_readme(tree, git)
    /\ pc' = "done"
    /\ UNCHANGED <<tree, gitVars, licenseVars, docsVars, countVars, stackVars, renderVars, outVars>>

NextReadme == GenerateReadme

SpecReadme == InitReadme /\ [][NextReadme]_vars

\* ------------------------------------------------------------- claim C1
\* README.md is there and was read
ReadmeRead == pc = "done" /\ ~readme.raised /\ CanRead(tree, <<"README.md">>)
ExistingDoc == EntryAt(tree, <<"README.md">>).text

\* the part of d between its leading and its trailing white space, given
\* without the stripping operator: a white prefix of length a and a white
\* suffix of length b around a part that begins and ends with other characters
IsCore(d, a, b) ==
    /\ a + b < Len(d)
    /\ \A i \in 1..a : IsSpace(Char(d, i))
    /\ \A i \in (Len(d) - b + 1)..Len(d) : IsSpace(Char(d, i))
    /\ ~IsSpace(Char(d, a + 1)) /\ ~IsSpace(Char(d, Len(d) - b))

PyFiles == {e \in tree : e.kind = "file" /\ EndsWith(BaseName(e.path), ".py")}

\* a tree with requirements.txt, one Python file holding `def main():` and
\* a LICENSE file holding "Apache"
ApacheProject ==
    /\ Exists(tree, "requirements.txt")
    /\ Cardinality(PyFiles) = 1
    /\ \A e \in PyFiles : e.ok /\ Contains(e.text, "def main():")
    /\ CanRead(tree, <<"LICENSE">>)
    /\ Contains(EntryAt(tree, <<"LICENSE">>).text, "Apache")

\* C7: for such a tree the report lists Python in its technology section,
\* names the Python file as the entry point and gives "Apache License 2.0"
\* as the license, whatever else the LICENSE file says.
C7_ApacheEndToEnd ==
    (pc = "done" /\ ~readme.raised /\ ApacheProject) =>
        /\ Contains(readme.text, "## Technology Stack\n- **Python**: requirements.txt\n")
        /\ \A e \in PyFiles :
              Contains(readme.text, "## Entry Point\n" \o RelPath(e.path) \o "\n")
        /\ Contains(readme.text, "## License\nApache License 2.0\n")

\* ------------------------------------------------------------- claim C9
\* C9: an error leaves generate_readme only when the root directory cannot
\* be listed.
C9_OnlyRootPropagates ==
    (pc = "done" /\ readme.raised) => ~EntryAt(tree, <<>>).ok

\* ------------------------------------------------------ generate_requirements
\* what running pipreqs does: subprocess.run raises (the program is not
\* there), it ends with a non-zero return code and a stderr text, or it ends
\* with return code 0 having written `written` to requirements.txt, or
\* nothing (wrote = FALSE)
Pipreqs(k, err, w, txt) == [kind |-> k, stderr |-> err, wrote |-> w, written |-> txt]

PipreqsOutcomes ==
    {Pipreqs("raise", "", FALSE, ""),
     Pipreqs("nonzero", "No module named pipreqs\n", FALSE, ""),
     Pipreqs("nonzero", "boom\n", FALSE, ""),
     Pipreqs("zero", "", FALSE, ""),
     Pipreqs("zero", "", TRUE, "flask\n"),
     Pipreqs("zero", "", TRUE, "")}

\* the tree after a program wrote text to the file name at the root
WriteFile(t, name, text) ==
    {e \in t : e.path # <<name>>}
    \cup {EntryOrd(<<name>>, "file", TRUE, text,
                   IF HasEntry(t, <<name>>) THEN EntryAt(t, <<name>>).ord ELSE Cardinality(t))}

\* the tree pipreqs leaves (--force --savepath req_path)
TreeAfterPipreqs(t, o) ==
    IF o.kind = "zero" /\ o.wrote THEN WriteFile(t, "requirements.txt", o.written) ELSE t

\* lines 10 to 27: the text generate_requirements returns, t being the tree
\* pipreqs left
RequirementsText(t, o) ==
    IF o.kind = "raise"
    THEN "# Error generating requirements.txt: [Errno 2] No such file or directory: 'pipreqs'"
    ELSE IF o.kind = "nonzero"
    THEN IF Contains(o.stderr, "No module named pipreqs")
         THEN "# Error generating requirements.txt: pipreqs is not installed. Please install it with 'pip install pipreqs'."
         ELSE "# Error generating requirements.txt: pipreqs error: " \o StripStr(o.stderr)
    ELSE IF ~Exists(t, "requirements.txt")
    THEN "# Error generating requirements.txt: requirements.txt was not generated. The repo may not have any imports."
    ELSE IF ~CanRead(t, <<"requirements.txt">>)
    THEN "# Error generating requirements.txt: 'utf-8' codec can't decode"
    ELSE IF StripStr(EntryAt(t, <<"requirements.txt">>).text) = ""
    THEN "# No imports found in the repository."
    ELSE StripStr(EntryAt(t, <<"requirements.txt">>).text)

\* --------------------------------------------------- inputs: cloned trees
ClonedTrees ==
    {{RootEntry(TRUE), EntryOrd(<<"tool.py">>, "file", TRUE, "import flask\n", 1)}
     \cup a \cup b \cup c \cup d :
        a \in Optional(EntryOrd(<<"requirements.txt">>, "file", TRUE, "django\n", 2)),
        b \in Optional(EntryOrd(<<"README.md">>, "file", TRUE, "a\n", 3)),
        c \in Optional(EntryOrd(<<"yarn.lock">>, "file", TRUE, "", 4)),
        d \in {{}, {EntryOrd(<<"data">>, "dir", FALSE, "", 5)},
                   {EntryOrd(<<"src">>, "dir", TRUE, "", 5),
                    EntryOrd(<<"src", "App.JSX">>, "file", TRUE, "x\n", 1)}}}

\* ------------------------------------------------------------- SpecAnalyze
\* main.py, analyze_repo: the steps after clone_repo returned
InitAnalyze ==
    /\ tree \in ClonedTrees
    /\ cloned = tree
    /\ git \in {w \in ReadmeGitWorlds : w[1].outcome = "ok"}
    /\ git_info = EmptyDict
    /\ pc = "requirements"
    /\ requirements = "" /\ gitignore = "" /\ project_name = "" /\ main_found = ""
    /\ complexity = <<>>
    /\ LicenseIdle /\ DocsIdle /\ CountIdle /\ StacksIdle /\ RenderIdle /\ ReadmeIdle

\* line 29
AnalyzeRequirements(o) ==
    /\ pc = "requirements"
    /\ tree' = TreeAfterPipreqs(tree, o)
    /\ requirements' = RequirementsText(tree', o)
    /\ pc' = "readme"
    /\ UNCHANGED <<cloned, gitignore, project_name, main_found, complexity, licenseVars,
                   gitVars, docsVars, countVars, stackVars, renderVars, readmeVars>>

\* line 30; an error raised here becomes the HTTPException of line 48
AnalyzeReadme ==
    /\ pc = "readme"
    /\ readme' = generate_readme(tree, git)
    /\ pc' = IF readme'.raised THEN "failed" ELSE "docs"
    /\ UNCHANGED <<tree, outVars, licenseVars, gitVars, docsVars, countVars, stackVars,
                   renderVars>>

\* lines 31 to 34: generate_docs reads the tree and writes nothing; of what
\* it does the run keeps here the modules it discovers
AnalyzeDocs ==
    /\ pc = "docs"
    /\ py_files' = [i \in DOMAIN DiscoveredFiles(tree) |->
                      [module_name |-> ModuleName(DiscoveredFiles(tree)[i]),
                       file_path |-> DiscoveredFiles(tree)[i]]]
    /\ pc' = "gitignore"
    /\ UNCHANGED <<tree, outVars, rel_path, doc_i, docs, skipped, documentation, licenseVars,
                   gitVars, countVars, stackVars, renderVars, readmeVars>>

\* lines 35 to 38
AnalyzeGitignore ==
    /\ pc = "gitignore"
    /\ gitignore' = generate_gitignore(tree)
    /\ pc' = "done"
    /\ UNCHANGED <<tree, cloned, requirements, project_name, main_found, complexity,
                   licenseVars, gitVars, docsVars, countVars, stackVars, renderVars, readmeVars>>

NextAnalyze ==
    \/ \E o \in PipreqsOutcomes : AnalyzeRequirements(o)
    \/ AnalyzeReadme
    \/ AnalyzeDocs
    \/ AnalyzeGitignore

SpecAnalyze == InitAnalyze /\ [][NextAnalyze]_vars

\* ------------------------------------------------------------ claim C12
\* C12: what the README of the run reports is what the tree of the clone
\* gives: the manifests found, the installation line, the file count and the
\* rendered tree, read where the README has been composed, are those of the
\* tree as it was when the run began.
C12_FactsFromSnapshot ==
    pc \in {"docs", "gitignore", "done"} =>
        /\ analyze_dependencies(tree) = analyze_dependencies(cloned)
        /\ InstallLine(analyze_dependencies(tree)) = InstallLine(analyze_dependencies(cloned))
        /\ count_files_and_languages(tree).total_files
              = count_files_and_languages(cloned).total_files
        /\ get_folder_tree(tree, default_max_depth) = get_folder_tree(cloned, default_max_depth)

\* ------------------------------------------------------------ claim C11
AllStacks == {indicators[i].lang : i \in DOMAIN indicators}

\* the first line of a stack's template, which names its section
SectionHead(stack) == Split(GITIGNORE_TEMPLATES(stack), "\n")[1]

\* the section heads in the order in which the text holds them
HeadsIn(text) ==
    SelectSeq(Split(text, "\n"), LAMBDA l : l \in {SectionHead(x) : x \in AllStacks})

\* C11: with a stack detected, the first line of the text names the detected
\* stacks, and the text holds the template of every detected stack and of no
\* other, one section each, in the alphabetical order of detect_stacks; with
\* none detected the text is the generic template under its own first line.
C11_Gitignore ==
    pc = "done" =>
        IF StacksFound(tree) = {}
        THEN /\ gitignore = "# Auto-generated generic .gitignore\n" \o StripStr(GENERIC_TEMPLATE)
             /\ HeadsIn(gitignore) = <<>>
        ELSE /\ Split(gitignore, "\n")[1]
                  = "# Auto-generated based on detected languages: "
                    \o Join([i \in DOMAIN stacks |-> Capitalize(stacks[i])], ", ")
             /\ Range(stacks) = StacksFound(tree)
             /\ \A i, j \in DOMAIN stacks : i < j => StrLess(stacks[i], stacks[j])
             /\ HeadsIn(gitignore) = [i \in DOMAIN stacks |-> SectionHead(stacks[i])]
             /\ \A x \in StacksFound(tree) :
                   Contains(gitignore, StripStr(GITIGNORE_TEMPLATES(x)))

\* a tree of three stacks and its text of three sections
C11_Witness ==
    /\ pc = "done"
    /\ stacks = <<"cpp", "node", "python">>
    /\ HeadsIn(gitignore) = <<"# C++", "# Node.js", "# Python">>

\* ------------------------------------------------------------- claim C2
RECURSIVE SumCounts(_)
SumCounts(counter) ==
    IF counter = <<>> THEN 0 ELSE Head(counter)[2] + SumCounts(Tail(counter))

\* the file name is in the language table, by its extension or as a whole
Recognized(name) ==
    \E i \in DOMAIN language_patterns :
        \/ \E x \in language_patterns[i].patterns : EndsWith(Lower(name), x) /\ StartsWith(x, ".")
        \/ Lower(name) \in language_patterns[i].patterns

OnlyRecognized(t) == \A e \in t : e.kind # "dir" => Recognized(BaseName(e.path))

\* C2: for a tree holding only recognized-extension files, every counted
\* file has exactly one language tag: after the walk the values of
\* lang_counts sum to total_files, also when the size of a file cannot be
\* read.
C2_EveryFileTagged ==
    (pc = "done" /\ OnlyRecognized(tree)) => SumCounts(lang_counts) = total_files

\* what the code keeps: the sum is the number of files whose size was read
C2_TaggedWhenSizeRead ==
    /\ SumCounts(lang_counts) = Len(file_sizes)
    /\ Len(file_sizes) <= total_files
    /\ (pc = "done" /\ \A i \in DOMAIN CountedFiles(tree) :
                          SizeKnown(EntryAt(tree, CountedFiles(tree)[i])))
          => SumCounts(lang_counts) = total_files

\* ------------------------------------------------------------ claim C13
\* k is the tag the claim gives the file: the language of the earliest
\* entry that lists its lower-cased extension or name, else 'Other (ext)',
\* else 'Unknown'
IsTagOf(k, name) ==
    \E ext \in {Lower(SplitExt(name))}, lname \in {Lower(name)} :
    \E listing \in {{i \in DOMAIN language_patterns :
                       \E x \in language_patterns[i].patterns : x = ext \/ x = lname}} :
        \/ \E i \in listing : (\A j \in listing : i <= j) /\ k = language_patterns[i].lang
        \/ listing = {} /\ ext # "" /\ k = "Other (" \o ext \o ")"
        \/ listing = {} /\ ext = "" /\ k = "Unknown"

\* the files among the first n of the walk that the loop has tagged
TaggedFiles(n) ==
    {i \in 1..n : SizeKnown(EntryAt(tree, CountedFiles(tree)[i]))}

\* C13: every file the loop tags is counted once, under the first entry in
\* table order that lists its lower-cased extension or name (.tsx under
\* TypeScript, .h under C++, package.json under JSON), under 'Other (ext)'
\* when no entry lists it and it has an extension, under 'Unknown' otherwise.
C13_FirstMatchWins ==
    /\ \A x \in DOMAIN lang_counts :
          lang_counts[x][2] =
             Cardinality({i \in TaggedFiles(count_i) :
                             IsTagOf(lang_counts[x][1], BaseName(CountedFiles(tree)[i]))})
    /\ \A i \in TaggedFiles(count_i) :
          \E x \in DOMAIN lang_counts :
             IsTagOf(lang_counts[x][1], BaseName(CountedFiles(tree)[i]))

\* a walk over App.TSX, src/util.h, package.json, data.xyz and README is
\* done: TypeScript, C++, JSON, Other (.xyz) and Unknown have one file each
C13_Witness ==
    /\ pc = "done"
    /\ \A k \in {"TypeScript", "C++", "JSON", "Other (.xyz)", "Unknown"} :
          \E x \in DOMAIN lang_counts : lang_counts[x] = <<k, 1>>
    /\ \A x \in DOMAIN lang_counts : lang_counts[x][1] \notin {"React", "C", "Package"}

\* ------------------------------------------------------------- claim C3
\* C3: stack detection is additive: whatever file is added to the tree,
\* every stack detected before is detected after; the stacks of the latest
\* call are still detected on the tree as it has grown since.
C3_Monotonic ==
    /\ \A dir \in ListableDirs(tree), name \in StackFiles :
         ~HasEntry(tree, Append(dir, name)) =>
            Range(detect_stacks(tree)) \subseteq Range(detect_stacks(WithFile(tree, dir, name)))
    /\ Range(stacks) \subseteq Range(detect_stacks(tree))

\* a Python tree to which package.json and pom.xml were added, detected as
\* all three stacks
C3_Witness ==
    /\ HasEntry(tree, <<"tool.py">>)
    /\ HasEntry(tree, <<"package.json">>)
    /\ HasEntry(tree, <<"pom.xml">>)
    /\ stacks = <<"java", "node", "python">>

\* ------------------------------------------------------------- claim C5
\* the directory components of the path a line stands for
DirComponents(line) == IF line.is_dir THEN Len(line.path) ELSE Len(line.path) - 1

\* the entries within n names of the root that no excluded name hides
Within(t, n) ==
    {e.path : e \in {x \in t : /\ Len(x.path) \in 1..n
                               /\ \A k \in DOMAIN x.path : x.path[k] \notin tree_exclude}}

\* C5: when get_folder_tree returns, no line stands for a path of more than
\* max_depth directory components, and the lines are, one each, the entries
\* within max_depth names of the root: what lies deeper leaves no line at
\* all, no marker either.
C5_DepthBound ==
    (pc = "done" /\ ~folder_tree.raised) =>
        /\ \A i \in DOMAIN folder_tree.lines :
              DirComponents(folder_tree.lines[i]) <= max_depth
        /\ {folder_tree.lines[i].path : i \in DOMAIN folder_tree.lines} = Within(tree, max_depth)
        /\ Len(folder_tree.lines) = Cardinality(Within(tree, max_depth))

\* a tree five names deep rendered to depth two: lines are there, the
\* deeper entries are not
C5_Witness ==
    /\ pc = "done" /\ ~folder_tree.raised
    /\ max_depth = 2
    /\ HasEntry(tree, ChainNames)
    /\ \E i \in DOMAIN folder_tree.lines : folder_tree.lines[i].path = <<"src", "core">>

\* ------------------------------------------------------------- claim C4
\* the section generate_docs built for the module named m, if any
HasSection(m) == \E i \in DOMAIN docs : docs[i][1].v = <<m>>
SectionOf(m) == docs[CHOOSE i \in DOMAIN docs : docs[i][1].v = <<m>>]

Heads(sec) == [i \in DOMAIN sec |-> sec[i].h]

\* one module section, one class entry C carrying cd, one function entry f
\* marked "No description available"
OneOfEach(sec, md, cd) ==
    /\ Len(sec) = 12
    /\ SubSeq(Heads(sec), 1, 10) =
         <<"## Module", "**Description:**", "### Classes", "####", "doc", "---",
           "### Functions", "####", "doc", "---">>
    /\ sec[2].v = md
    /\ sec[4].v = <<"C">> /\ sec[5].v = cd
    /\ sec[8].v = <<"f">> /\ sec[9].v = NoDescription

\* alpha.py holds the text ShapeText(md, cd, body) and has been documented
DocumentedShape(md, cd, body) ==
    /\ pc = "done"
    /\ CanRead(tree, <<"alpha.py">>)
    /\ EntryAt(tree, <<"alpha.py">>).text = ShapeText(md, cd, body)
    /\ HasSection("alpha")

\* no token of the text reads like a declaration
Prose(text) == \A i \in DOMAIN text : text[i].k \notin {"class", "def"}

\* no triple-quoted block in the text
NoBlock(text) == \A i \in DOMAIN text : text[i].k # "q"

ItemOf(section, h) ==
    LET idx == {j \in DOMAIN section : section[j].h = h}
    IN section[SetMin(idx)].v

\* the relative paths of the discovered files whose module name is m
PathsOfModule(m) ==
    {RelPath(py_files[j].file_path) : j \in {k \in DOMAIN py_files : py_files[k].module_name = m}}

\* C14: the File line of every documentation section carries the relative
\* path of the file the section documents: the file whose module name heads
\* the section.
C14_FileLineOfSameFile ==
    \A i \in DOMAIN docs :
        \E p \in PathsOfModule(ItemOf(docs[i], "## Module")[1]) :
            ItemOf(docs[i], "**File:**") = <<p>>

\* ------------------------------------------------------------ claim C15
\* the sources of a title in the claim's order: each is either unavailable
\* (absent, unreadable, or declaring no name) or gives a name
Usable(name) ==
    /\ Exists(tree, name) /\ CanRead(tree, <<name>>)
    /\ NameMatch(EntryAt(tree, <<name>>).text) # ""

TitleSources ==
    << [avail |-> Usable("setup.py"),
        name |-> IF Usable("setup.py") THEN NameMatch(EntryAt(tree, <<"setup.py">>).text) ELSE ""],
       [avail |-> Usable("pyproject.toml"),
        name |-> IF Usable("pyproject.toml")
                 THEN NameMatch(EntryAt(tree, <<"pyproject.toml">>).text) ELSE ""],
       [avail |-> PackageName(tree).found, name |-> PackageName(tree).name],
       [avail |-> RemoteName(tree).found, name |-> RemoteName(tree).name],
       [avail |-> TRUE, name |-> RepoName] >>

\* C15: the title is the name of the first available source in the order
\* setup.py, pyproject.toml, package.json, remote URL (final path segment
\* without extension), root directory name; a later source is used only when
\* every earlier one is absent, unreadable or declares no name.
C15_PreferenceOrder ==
    pc = "done" =>
        \A k \in DOMAIN TitleSources :
            (TitleSources[k].avail /\ \A j \in 1..(k - 1) : ~TitleSources[j].avail)
                => project_name = TitleSources[k].name

\* setup.py declares no name, pyproject.toml cannot be read, package.json is
\* truncated, and the title came from the remote URL
C15_Witness ==
    /\ pc = "done"
    /\ CanRead(tree, <<"setup.py">>) /\ ~Usable("setup.py")
    /\ HasEntry(tree, <<"pyproject.toml">>) /\ ~CanRead(tree, <<"pyproject.toml">>)
    /\ CanRead(tree, <<"package.json">>) /\ EntryAt(tree, <<"package.json">>).text = "{\"name\": "
    /\ RemoteName(tree).found
    /\ project_name = "proj"

\* ------------------------------------------------------------- claim C8
\* every directory above the entry can be listed
Reachable(e) ==
    \A k \in 0..(Len(e.path) - 1) :
        LET d == SubSeq(e.path, 1, k)
        IN HasEntry(tree, d) /\ EntryAt(tree, d).kind = "dir" /\ EntryAt(tree, d).ok

\* the .py files a walk of the tree meets, hidden ones left out
DiscoveredPy ==
    {e \in tree : /\ e.kind # "dir"
                  /\ Reachable(e)
                  /\ EndsWith(BaseName(e.path), ".py")
                  /\ ~StartsWith(BaseName(e.path), ".")}

SkippedAs(m) == {i \in DOMAIN skipped : skipped[i][1] = m}
DocumentedAs(m) == {i \in DOMAIN docs : docs[i][1].v = <<m>>}

\* C8: no per-file failure aborts generate_docs: every discovered .py file
\* ends in exactly one of docs and skipped, a file whose read raises is in
\* skipped with its error message and a traceback, and the page shows every
\* skipped file in a trailing section after every documented section.
C8_NoFileLost ==
    (pc = "done" /\ DiscoveredPy # {}) =>
        /\ Len(docs) + Len(skipped) = Cardinality(DiscoveredPy)
        /\ \A e \in DiscoveredPy :
             LET m == ModuleName(e.path)
                 readable == e.kind = "file" /\ e.ok
             IN /\ Cardinality(DocumentedAs(m)) = (IF readable THEN 1 ELSE 0)
                /\ Cardinality(SkippedAs(m)) = (IF readable THEN 0 ELSE 1)
                /\ \A i \in SkippedAs(m) :
                     /\ skipped[i][2] \in {"FileNotFoundError", "UnicodeDecodeError"}
                     /\ Contains(skipped[i][3], skipped[i][2])
        /\ Len(SelectSeq(documentation, LAMBDA b : b.h = "section")) = Len(docs)
        /\ Len(SelectSeq(documentation, LAMBDA b : b.h = "skipped")) = Len(skipped)
        /\ \A i, j \in DOMAIN documentation :
             (documentation[i].h = "section" /\ documentation[j].h \in {"Skipped Modules", "skipped"})
                => i < j
        /\ \A i \in DOMAIN skipped : \E j \in DOMAIN documentation :
             documentation[j].h = "skipped" /\ documentation[j].v = skipped[i]

\* a run in which the first file failed, a later one was documented and a
\* third failed again
C8_Witness ==
    /\ pc = "done"
    /\ Len(py_files) = 3
    /\ Len(docs) = 1 /\ Len(skipped) = 2
    /\ ReadError(tree, py_files[1].file_path) # ""
    /\ ReadError(tree, py_files[2].file_path) = ""

\* ------------------------------------------------------------ claim C16
\* the files a walk of the tree meets
WalkedFiles == {e \in tree : e.kind # "dir" /\ Reachable(e)}

\* the positions of the preference list whose name some walked file bears
ListedNames == {i \in DOMAIN main_patterns : \E e \in WalkedFiles : BaseName(e.path) = main_patterns[i]}

\* the walked Python files that can be read and hold a main marker, in
\* walk order
MarkedFiles ==
    SelectSeq(WalkFiles(tree, {}),
              LAMBDA p : /\ EndsWith(BaseName(p), ".py") /\ CanRead(tree, p)
                         /\ HasMainMarker(EntryAt(tree, p).text))

\* C16: when a listed name occurs anywhere in the tree, the path returned is
\* that of a file bearing the earliest listed name that occurs, wherever the
\* walk meets it; when none occurs it is the first Python file with a main
\* marker; otherwise nothing is returned and the usage line is the fallback
\* sentence.
C16_EarliestListedName ==
    pc = "done" =>
        IF ListedNames # {}
        THEN \E e \in WalkedFiles :
                /\ main_found = RelPath(e.path)
                /\ BaseName(e.path) = main_patterns[SetMin(ListedNames)]
        ELSE IF MarkedFiles # <<>>
        THEN main_found = RelPath(MarkedFiles[1])
        ELSE /\ main_found = ""
             /\ UsageLine(main_found) = "See source code for entry point"

\* main.py two levels down won over app.py at the root
C16_Witness ==
    /\ pc = "done"
    /\ HasEntry(tree, <<"app.py">>)
    /\ main_found = "pkg/deep/main.py"

\* ------------------------------------------------------------ claim C17
\* the name a line shows
LineName(l) == BaseName(l.path)

\* two lines of one directory level are in the claim's order
InLevelOrder(a, b) ==
    /\ ~(~a.is_dir /\ b.is_dir)
    /\ (a.is_dir /\ b.is_dir) =>
          \/ get_directory_priority(LineName(a)) < get_directory_priority(LineName(b))
          \/ /\ get_directory_priority(LineName(a)) = get_directory_priority(LineName(b))
             /\ StrLess(LineName(a), LineName(b))
    /\ (~a.is_dir /\ ~b.is_dir) => StrLess(LineName(a), LineName(b))

\* C17: at every rendered directory level the directory lines come before
\* the file lines, directories in order of priority (unrecognised names
\* last) and by name within one priority, files by name; and no rendered
\* entry bears an excluded name.
C17_LevelOrder ==
    LET lines == folder_tree.lines
    IN /\ \A i, j \in DOMAIN lines :
             (i < j /\ Parent(lines[i].path) = Parent(lines[j].path))
                => InLevelOrder(lines[i], lines[j])
       /\ \A i \in DOMAIN lines :
             /\ LineName(lines[i]) \notin tree_exclude
             /\ lines[i].is_dir = IsDir(tree, lines[i].path)

\* the root level shows app, src, docs, Zeta, alpha, then Makefile,
\* README.md, a.py, and the tree holds a build directory that is not shown
C17_Witness ==
    LET lines == folder_tree.lines
        top == SelectSeq(lines, LAMBDA l : Len(l.path) = 1)
    IN /\ pc = "done"
       /\ HasEntry(tree, <<"build">>)
       /\ [i \in DOMAIN top |-> LineName(top[i])]
             = <<"app", "src", "docs", "Zeta", "alpha", "Makefile", "README.md", "a.py">>

\* ------------------------------------------------------------ claim C18
\* the files the loop has passed that it analyses and can read
ReadSoFar ==
    LET fs == WalkFiles(tree, {})
    IN {i \in 1..count_i : IsAnalysed(BaseName(fs[i])) /\ CanRead(tree, fs[i])}

\* the number of lines of the files in a set of walk positions
RECURSIVE LinesOf(_)
LinesOf(S) ==
    IF S = {} THEN 0
    ELSE LET i == CHOOSE x \in S : TRUE
         IN Len(Split(EntryAt(tree, WalkFiles(tree, {})[i]).text, "\n")) + LinesOf(S \ {i})

\* C18: after any number of files, total_lines is the sum of code_lines,
\* comment_lines and blank_lines, and it is the number of lines of the
\* files read so far: a file that cannot be read adds nothing to any
\* counter and the files after it are still counted.
C18_LinesPartitioned ==
    /\ complexity.total_lines
         = complexity.code_lines + complexity.comment_lines + complexity.blank_lines
    /\ complexity.total_lines = LinesOf(ReadSoFar)
    /\ ReadSoFar = {} => complexity = ZeroComplexity

\* the walk is over, its first Python file could not be read, a later one
\* was, and lines of all three kinds were counted
C18_Witness ==
    /\ pc = "done"
    /\ \E i \in 1..count_i :
          /\ IsAnalysed(BaseName(WalkFiles(tree, {})[i]))
          /\ ~CanRead(tree, WalkFiles(tree, {})[i])
          /\ \A j \in ReadSoFar : i < j
    /\ complexity.code_lines > 0 /\ complexity.comment_lines > 0
    /\ complexity.blank_lines > 0

\* ------------------------------------------------------------ claim C10
\* the query answered return code 0 with well-formed output
Succeeded(i) ==
    /\ git[i].outcome = "ok"
    /\ Queries[i] = "last_commit" => git[i].stdout # ""

\* C10: the four queries are independent: when get_git_info returns, each
\* field is in the dictionary exactly when its own query succeeded, whatever
\* the other queries answered (a non-zero exit or a raised error of one
\* query does not keep a later query from recording its field).
C10_QueriesIndependent ==
    pc = "done" =>
        \A i \in 1..Len(Queries) : (Queries[i] \in DOMAIN git_info) <=> Succeeded(i)

\* what the code does guarantee: when no query raises, each field is there
\* exactly when its own query succeeded
C10_NonZeroExitIsLocal ==
    (pc = "done" /\ \A i \in 1..Len(Queries) : git[i].outcome # "raise") =>
        \A i \in 1..Len(Queries) : (Queries[i] \in DOMAIN git_info) <=> Succeeded(i)

\* ------------------------------------------------------------- claim C6
\* the text holds m, i, t in a row, each in either letter case
HoldsMITAnyCase(c) ==
    \E i \in 1..(Len(c) - 2) :
        /\ Char(c, i) \in {"M", "m"}
        /\ Char(c, i + 1) \in {"I", "i"}
        /\ Char(c, i + 2) \in {"T", "t"}

\* the text holds none of the recognized keywords, in any letter case
HoldsNoKeyword(c) ==
    \A kw \in {"mit", "apache", "gpl", "bsd"} : ~Contains(Lower(c), kw)

\* C6: a readable LICENSE holding "MIT" in any letter case yields "MIT
\* License"; a readable LICENSE holding none of the recognized keywords
\* yields the custom-license message naming LICENSE; a tree with none of
\* the candidate file names yields "No license detected."
C6_LicenseDetection ==
    pc = "done" =>
        /\ CanRead(tree, <<"LICENSE">>) =>
              LET c == EntryAt(tree, <<"LICENSE">>).text IN
                /\ HoldsMITAnyCase(c) => license_info = "MIT License"
                /\ HoldsNoKeyword(c) => license_info = "Custom License (see LICENSE)"
        /\ (\A i \in DOMAIN license_files : ~HasEntry(tree, <<license_files[i]>>))
              => license_info = "No license detected."

\* a LICENSE whose only "MIT" is the mixed-case middle of a word, beside the
\* word "Apache", with a LICENSE.txt present as well, was classified
C6_Witness ==
    /\ pc = "done"
    /\ CanRead(tree, <<"LICENSE">>)
    /\ EntryAt(tree, <<"LICENSE">>).text = "Apache\nPerMiTted\n"
    /\ HasEntry(tree, <<"LICENSE.txt">>)
    /\ license_info = "MIT License"

====
